---------------------------- MODULE Spec2Model ----------------------------
(***************************************************************************)
(* A model of the network RPC handlers of src/rpcnet.cpp: the address-book *)
(* query (destination), the added-node list (addnode, getaddednodeinfo)    *)
(* and the network-active toggle (switchnetwork).                          *)
(*                                                                         *)
(* RPC worker threads run the handlers; a handler is a sequence of atomic  *)
(* steps (its position is pc[t]), so that other threads and the address    *)
(* manager / connection manager interleave with it where the code holds no *)
(* lock that excludes them.                                                *)
(*                                                                         *)
(* Strings whose contents the code inspects (std::string::find) are        *)
(* sequences of one-character strings; strings that are only compared for  *)
(* equality (command keywords, endpoints) are TLA+ strings.                *)
(***************************************************************************)
EXTENDS Integers, Sequences, FiniteSets, TLC

\* ------------------------------------------------------------------ bounds

\* Longest second argument of "destination match <S>".
MaxMatchLen == 2

\* Largest number of entries in the address book.
MaxBook == 2

\* Largest number of live peers.
MaxPeers == 1

\* Largest number of connection attempts addnode onetry asks for.
MaxRequests == 1

\* Largest number of switchnetwork calls that run in one behaviour.
MaxSwitchCalls == 3

\* Latest time the clock reaches.
MaxTime == 2

\* Largest bantime argument of setban.
MaxBanTime == 1

\* Largest number of connections the connection manager makes in all.
MaxConn == 1

\* The connections the connection manager sets up while disconnectnode is
\* called (SpecDisc).
MaxLive == 2

\* ------------------------------------------------------------ basic values

Threads == {"t1", "t2"}

\* The RPC worker that runs destination in SpecDest (calls of destination are
\* serialised by cs_main, so one caller shows every behaviour of the handler).
DestThreads == {"t1"}

NoThread == "none"

\* std::string::npos, the "not found" result of find.
npos == -1

Alphabet == {"a", "b"}

RECURSIVE StringsUpTo(_)
StringsUpTo(n) ==
    IF n = 0 THEN {<<>>}
    ELSE LET shorter == StringsUpTo(n - 1)
         IN  shorter \cup {Append(s, c) : s \in {x \in shorter : Len(x) = n - 1}, c \in Alphabet}

Range(s) == {s[x] : x \in DOMAIN s}

Min(S) == CHOOSE lo \in S : \A other \in S : lo <= other

\* s with the element at position p removed (vector::erase(it)).
RemoveAt(s, p) == SubSeq(s, 1, p - 1) \o SubSeq(s, p + 1, Len(s))

\* s with e inserted so that it ends at position p.
InsertAt(s, p, e) == SubSeq(s, 1, p - 1) \o <<e>> \o SubSeq(s, p, Len(s))

\* ----------------------------------------------------------------- state

VARIABLES
    \* RPC dispatch: per worker thread, the handler it runs and where it is
    pc, op, fHelp, params, outcome, result,
    \* locks: the thread that holds each (an RPC worker, or the connection
    \* manager), or NoThread
    cs_main, cs_vNodes, cs_vAddedNodes, cs_mapLocalHost,
    \* the address manager's entries, in the order CopyDestinationStats exports
    addrBook,
    \* locals of destination (of the thread that holds cs_main)
    fSelectedMatch, fMatchStr, fMatchTried, fMatchAttempt, fMatchConnect,
    fUnknownCmd, sMatchStr, ret, vecStats, nTableSize, i, k, fMatchFound,
    nMatchSize,
    \* the added-node list, the live peers, and the connection attempts that
    \* addnode onetry has asked the connection manager for
    vAddedNodes, vNodes, vOpenRequests,
    \* per thread, the position addnode's search of vAddedNodes returned
    it,
    \* the network-active flag; per thread, the argument switchnetwork has
    \* evaluated for SetNetworkActive; and the history of switchnetwork:
    \* what each running call saw when it read the flag, the number of writes
    \* of the flag, and the calls that have returned
    fNetworkActive, fActiveArg, netSeen, nNetWrites, netLog,
    \* the ban table (subnet -> entry), the ban database on disk, the clock,
    \* the addresses of the connections being set up, the id of the next
    \* node; per thread, the node setban's FindNode returned, and (history)
    \* the ids of the live nodes that matched when setban inserted its ban
    setBanned, banDb, nTime, vPending, nNextId, bannedNode, banSeen,
    \* per thread, the node disconnectnode's FindNode returned
    pNode

rpcVars == <<pc, op, fHelp, params, outcome, result>>
lockVars == <<cs_main, cs_vNodes, cs_vAddedNodes, cs_mapLocalHost>>
destFlags == <<fSelectedMatch, fMatchStr, fMatchTried, fMatchAttempt,
               fMatchConnect, fUnknownCmd, sMatchStr>>
destLoop == <<ret, vecStats, nTableSize, i, k, fMatchFound, nMatchSize>>
destVars == <<addrBook, destFlags, destLoop>>

addedVars == <<vAddedNodes, vNodes, vOpenRequests, it>>
netVars == <<fNetworkActive, fActiveArg, netSeen, nNetWrites, netLog>>
banVars == <<setBanned, banDb, nTime, vPending, nNextId, bannedNode, banSeen, pNode>>

\* What each group of handlers leaves alone.
nonDestVars == <<addedVars, netVars, banVars>>
nonAddedVars == <<destVars, cs_main, cs_vNodes, cs_mapLocalHost, netVars, banVars>>
nonNetVars == <<destVars, lockVars, addedVars, banVars>>

vars == <<rpcVars, lockVars, destVars, addedVars, netVars, banVars>>

\* ------------------------------------------------- address book (addrman)

\* CDestinationStats values the address manager can hold.  Between them they
\* separate the filters: a string found only in the address, only in the
\* source, only in the base64 field; tried or not; attempted or not;
\* connected or not.
DestUniverse ==
    { [sAddress |-> <<"a", "a">>, sSource |-> <<"b">>, sBase64 |-> <<"a", "b", "a">>,
       fInTried |-> FALSE, nAttempts |-> 0, nLastTry |-> 0, nSuccessTime |-> 0],
      [sAddress |-> <<"a", "b">>, sSource |-> <<"a", "a">>, sBase64 |-> <<"b", "b">>,
       fInTried |-> FALSE, nAttempts |-> 2, nLastTry |-> 5, nSuccessTime |-> 0],
      [sAddress |-> <<"b", "a">>, sSource |-> <<"b">>, sBase64 |-> <<"a", "a">>,
       fInTried |-> TRUE, nAttempts |-> 0, nLastTry |-> 7, nSuccessTime |-> 7],
      [sAddress |-> <<"b">>, sSource |-> <<"a", "b">>, sBase64 |-> <<"b", "a", "b">>,
       fInTried |-> FALSE, nAttempts |-> 1, nLastTry |-> 9, nSuccessTime |-> 3] }

\* The address manager learns a destination: a new entry appears somewhere
\* in the export order.  It takes only the address manager's own lock, so
\* it runs whether or not an RPC thread holds cs_main.
addrman_Add(e, p) ==
    /\ Len(addrBook) < MaxBook
    /\ p \in 1..(Len(addrBook) + 1)
    /\ \A x \in DOMAIN addrBook : addrBook[x].sAddress # e.sAddress
    /\ addrBook' = InsertAt(addrBook, p, e)
    /\ UNCHANGED <<nonDestVars, rpcVars, lockVars, destFlags, destLoop>>

\* The address manager drops a destination.
addrman_Delete(p) ==
    /\ p \in DOMAIN addrBook
    /\ addrBook' = RemoveAt(addrBook, p)
    /\ UNCHANGED <<nonDestVars, rpcVars, lockVars, destFlags, destLoop>>

\* addrman.CopyDestinationStats(vecStats): under the address manager's lock,
\* export every entry and return the number of entries.
CopyDestinationStats == [vStats |-> addrBook, nSize |-> Len(addrBook)]

\* ------------------------------------------------------------ destination

DestCmds == {"match", "good", "attempt", "connect", "bad"}

\* Argument lists a caller may pass: none, one keyword, a keyword and a
\* string, and one list that is too long.
DestParams ==
    {<<>>}
    \cup {<<c>> : c \in DestCmds}
    \cup {<<"match", s>> : s \in StringsUpTo(MaxMatchLen)}
    \cup {<<c, <<"a">>>> : c \in DestCmds \ {"match"}}
    \cup {<<"match", <<"a">>, <<"a">>>>}

\* std::string::find(sub): the first position (from 0) at which sub occurs
\* in s, npos when there is none.
string_find(s, sub) ==
    LET at == {p \in 0..(Len(s) - Len(sub)) : SubSeq(s, p + 1, p + Len(sub)) = sub}
    IN  IF at = {} THEN npos ELSE Min(at)

\* Lines 115-140: the filter flags from the arguments.
ParseFilterLenient(p) ==
    LET sCmdStr == p[1]
    IN  [fSelectedMatch |-> Len(p) > 0,
         fMatchStr      |-> Len(p) > 1 /\ sCmdStr = "match",
         fMatchTried    |-> Len(p) > 0 /\ sCmdStr = "good",
         fMatchAttempt  |-> Len(p) > 0 /\ sCmdStr = "attempt",
         fMatchConnect  |-> Len(p) > 0 /\ sCmdStr = "connect",
         fUnknownCmd    |-> FALSE,
         sMatchStr      |-> IF Len(p) > 1 /\ sCmdStr = "match" THEN p[2] ELSE <<>>]

ParseFilter(p) ==
    IF Len(p) > 0
    THEN LET sCmdStr == p[1]
         IN  [fSelectedMatch |-> TRUE,
              fMatchStr      |-> sCmdStr = "match" /\ Len(p) > 1,
              fMatchTried    |-> sCmdStr = "good",
              fMatchAttempt  |-> sCmdStr = "attempt",
              fMatchConnect  |-> sCmdStr = "connect",
              fUnknownCmd    |-> \/ sCmdStr = "match" /\ ~(Len(p) > 1)
                                 \/ sCmdStr \notin {"match", "good", "attempt", "connect"},
              sMatchStr      |-> IF sCmdStr = "match" /\ Len(p) > 1 THEN p[2] ELSE <<>>]
    ELSE [fSelectedMatch |-> FALSE, fMatchStr |-> FALSE, fMatchTried |-> FALSE,
          fMatchAttempt |-> FALSE, fMatchConnect |-> FALSE, fUnknownCmd |-> FALSE,
          sMatchStr |-> <<>>]

\* Line 151: the sequence both passes iterate.
LoopStatsLive == addrBook

LoopStats == vecStats

\* Lines 152-168: fMatchFound after the filter tests on one entry.
MatchTest(stats, found) ==
    IF fSelectedMatch
    THEN IF fMatchStr
         THEN IF \/ string_find(stats.sAddress, sMatchStr) # npos
                 \/ string_find(stats.sSource, sMatchStr) # npos
                 \/ string_find(stats.sBase64, sMatchStr) # npos
              THEN TRUE ELSE found
         ELSE IF fMatchTried
         THEN IF stats.fInTried THEN TRUE ELSE found
         ELSE IF fMatchAttempt
         THEN IF stats.nAttempts > 0 THEN TRUE ELSE found
         ELSE IF fMatchConnect
         THEN IF stats.nSuccessTime > 0 THEN TRUE ELSE found
         ELSE found
    ELSE TRUE

\* Lines 171-181: the object emitted for a matching entry.
BuildMatchObjAlways(stats, selected) ==
    [address |-> stats.sAddress, good |-> stats.fInTried,
     attempt |-> stats.nAttempts, lasttry |-> stats.nLastTry,
     connect |-> stats.nSuccessTime, source |-> stats.sSource,
     base64 |-> stats.sBase64]

BuildMatchObj(stats, selected) ==
    IF selected
    THEN [address |-> stats.sAddress, good |-> stats.fInTried,
          attempt |-> stats.nAttempts, lasttry |-> stats.nLastTry,
          connect |-> stats.nSuccessTime, source |-> stats.sSource,
          base64 |-> stats.sBase64]
    ELSE [address |-> stats.sAddress, good |-> stats.fInTried,
          attempt |-> stats.nAttempts, lasttry |-> stats.nLastTry,
          connect |-> stats.nSuccessTime, source |-> stats.sSource]

\* Lines 184-187: count a match and clear the flag for the next entry.
CountMatchNoReset(found, n) ==
    IF found THEN [nMatchSize |-> n + 1, fMatchFound |-> found]
    ELSE [nMatchSize |-> n, fMatchFound |-> found]

CountMatch(found, n) ==
    IF found THEN [nMatchSize |-> n + 1, fMatchFound |-> FALSE]
    ELSE [nMatchSize |-> n, fMatchFound |-> found]

\* Lines 192-194: the first object of the array.
BuildSizesSwapped(table, match) == [tablesize |-> match, matchsize |-> match]

BuildSizes(table, match) == [tablesize |-> table, matchsize |-> match]

\* Locals of destination as they are before the handler runs.
DestLocalsReset ==
    /\ fSelectedMatch' = FALSE /\ fMatchStr' = FALSE /\ fMatchTried' = FALSE
    /\ fMatchAttempt' = FALSE /\ fMatchConnect' = FALSE /\ fUnknownCmd' = FALSE
    /\ sMatchStr' = <<>> /\ ret' = <<>> /\ vecStats' = <<>> /\ nTableSize' = 0
    /\ i' = 0 /\ k' = 1 /\ fMatchFound' = FALSE /\ nMatchSize' = 0

\* Lines 61-110: the call arrives; help or more than two arguments ends in
\* the usage text before any lock is taken.
destination_call(t, help, p) ==
    /\ pc[t] = "idle"
    /\ op' = [op EXCEPT ![t] = "destination"]
    /\ fHelp' = [fHelp EXCEPT ![t] = help]
    /\ params' = [params EXCEPT ![t] = p]
    /\ result' = [result EXCEPT ![t] = <<>>]
    /\ IF help \/ Len(p) > 2
       THEN /\ outcome' = [outcome EXCEPT ![t] = "usage"]
            /\ pc' = pc
       ELSE /\ outcome' = [outcome EXCEPT ![t] = "none"]
            /\ pc' = [pc EXCEPT ![t] = "dest_lock"]
    /\ UNCHANGED <<nonDestVars, lockVars, destVars>>

\* Line 113: LOCK2(cs_main, cs_vNodes) takes cs_main, and then cs_vNodes
\* while it holds cs_main.
destination_lock(t) ==
    /\ pc[t] = "dest_lock"
    /\ IF cs_main # t
       THEN /\ cs_main = NoThread
            /\ cs_main' = t
            /\ UNCHANGED <<cs_vNodes, pc>>
       ELSE /\ cs_vNodes = NoThread
            /\ cs_vNodes' = t
            /\ cs_main' = cs_main
            /\ pc' = [pc EXCEPT ![t] = "dest_parse"]
    /\ UNCHANGED <<nonDestVars, op, fHelp, params, outcome, result, cs_vAddedNodes,
                   cs_mapLocalHost, destVars>>

\* Lines 115-146: the flags, then the export of the address book.
destination_parse(t) ==
    /\ pc[t] = "dest_parse"
    /\ LET f == ParseFilter(params[t])
           c == CopyDestinationStats
       IN  /\ fSelectedMatch' = f.fSelectedMatch
           /\ fMatchStr' = f.fMatchStr
           /\ fMatchTried' = f.fMatchTried
           /\ fMatchAttempt' = f.fMatchAttempt
           /\ fMatchConnect' = f.fMatchConnect
           /\ fUnknownCmd' = f.fUnknownCmd
           /\ sMatchStr' = f.sMatchStr
           /\ vecStats' = c.vStats
           /\ nTableSize' = c.nSize
           /\ pc' = [pc EXCEPT ![t] = IF f.fUnknownCmd THEN "dest_throw" ELSE "dest_loop"]
    /\ ret' = <<>> /\ i' = 0 /\ k' = 1 /\ fMatchFound' = FALSE /\ nMatchSize' = 0
    /\ UNCHANGED <<nonDestVars, op, fHelp, params, outcome, result, lockVars, addrBook>>

\* Lines 147, 198-199: an unknown subcommand is an error; the locks are
\* released as the exception leaves the function.
destination_throw(t) ==
    /\ pc[t] = "dest_throw"
    /\ outcome' = [outcome EXCEPT ![t] = "RPC_INVALID_PARAMS"]
    /\ pc' = [pc EXCEPT ![t] = "idle"]
    /\ cs_main' = NoThread /\ cs_vNodes' = NoThread
    /\ DestLocalsReset
    /\ UNCHANGED <<nonDestVars, op, fHelp, params, result, cs_vAddedNodes, cs_mapLocalHost, addrBook>>

\* Lines 151-188: the loop body for one entry, in pass i.
destination_entry(t) ==
    /\ pc[t] = "dest_loop"
    /\ k <= Len(LoopStats)
    /\ LET stats == LoopStats[k]
           found == MatchTest(stats, fMatchFound)
           c == CountMatch(found, nMatchSize)
       IN  /\ ret' = IF i = 1 /\ found
                     THEN Append(ret, BuildMatchObj(stats, fSelectedMatch))
                     ELSE ret
           /\ nMatchSize' = c.nMatchSize
           /\ fMatchFound' = c.fMatchFound
    /\ k' = k + 1
    /\ UNCHANGED <<nonDestVars, rpcVars, lockVars, addrBook, destFlags, vecStats, nTableSize, i>>

\* Lines 148-150, 189-197: the end of a pass.  The first pass puts the sizes
\* on the array; fMatchFound and nMatchSize are declared inside the loop
\* over i and start afresh in the second pass.
destination_pass_end(t) ==
    /\ pc[t] = "dest_loop"
    /\ k > Len(LoopStats)
    /\ ret' = IF i = 0 THEN Append(ret, BuildSizes(nTableSize, nMatchSize)) ELSE ret
    /\ i' = i + 1
    /\ k' = 1 /\ fMatchFound' = FALSE /\ nMatchSize' = 0
    /\ pc' = [pc EXCEPT ![t] = IF i + 1 < 2 THEN "dest_loop" ELSE "dest_return"]
    /\ UNCHANGED <<nonDestVars, op, fHelp, params, outcome, result, lockVars, addrBook,
                   destFlags, vecStats, nTableSize>>

\* Line 201: return ret; the locks are released.
destination_return(t) ==
    /\ pc[t] = "dest_return"
    /\ outcome' = [outcome EXCEPT ![t] = "ok"]
    /\ result' = [result EXCEPT ![t] = <<ret>>]
    /\ pc' = [pc EXCEPT ![t] = "idle"]
    /\ cs_main' = NoThread /\ cs_vNodes' = NoThread
    /\ DestLocalsReset
    /\ UNCHANGED <<nonDestVars, op, fHelp, params, cs_vAddedNodes, cs_mapLocalHost, addrBook>>

\* ------------------------------------------------------ connection manager

Endpoints == {"10.0.0.1:9", "10.0.0.2:9", "node.example:9"}

\* The RPC worker that runs addnode and getaddednodeinfo in SpecAdded.
AddedThreads == {"t1"}

\* A peer connects: the connection manager appends it to vNodes.
net_Connect(e, inbound) ==
    /\ Len(vNodes) < MaxPeers
    /\ \A x \in DOMAIN vNodes : vNodes[x].addrName # e
    /\ vNodes' = Append(vNodes, [addrName |-> e, fInbound |-> inbound])
    /\ UNCHANGED <<rpcVars, lockVars, destVars, netVars, banVars, vAddedNodes, vOpenRequests, it>>

\* A peer goes away.
net_Disconnect(p) ==
    /\ p \in DOMAIN vNodes
    /\ vNodes' = RemoveAt(vNodes, p)
    /\ UNCHANGED <<rpcVars, lockVars, destVars, netVars, banVars, vAddedNodes, vOpenRequests, it>>

\* ---------------------------------------------------------------- addnode

AddnodeParams ==
    {<<e, c>> : e \in Endpoints, c \in {"add", "remove", "onetry"}}
    \cup {<<"10.0.0.1:9", "bad">>, <<"10.0.0.1:9">>, <<"10.0.0.1:9", "add", "x">>}

\* Lines 305-307: the command, when there are exactly two arguments.
AddnodeCommand(p) == IF Len(p) = 2 THEN p[2] ELSE ""

\* Lines 331-334: the position of the first element equal to strNode, or
\* one past the end.
FindAdded(strNode) ==
    Min({x \in DOMAIN vAddedNodes : vAddedNodes[x] = strNode} \cup {Len(vAddedNodes) + 1})

\* Line 343: vector::erase(it) closes the gap and keeps the order.
vector_erase_swap(v, pos) ==
    IF pos = Len(v) THEN SubSeq(v, 1, Len(v) - 1)
    ELSE SubSeq([v EXCEPT ![pos] = v[Len(v)]], 1, Len(v) - 1)

vector_erase(v, pos) == RemoveAt(v, pos)

\* Lines 324-328: onetry asks for one connection and touches no list.
OnetryEffectSkipMember(strNode) ==
    [vAddedNodes   |-> vAddedNodes,
     vOpenRequests |-> IF strNode \in Range(vAddedNodes) THEN vOpenRequests
                       ELSE Append(vOpenRequests, strNode)]

OnetryEffect(strNode) ==
    [vAddedNodes   |-> vAddedNodes,
     vOpenRequests |-> Append(vOpenRequests, strNode)]

\* Lines 336-344: the update, from the position the search returned.
AddnodeUpdateNoCheck(strCommand, strNode, found) ==
    LET end == Len(vAddedNodes) + 1
    IN  IF strCommand = "add"
        THEN [outcome |-> "ok", vAddedNodes |-> Append(vAddedNodes, strNode)]
        ELSE IF strCommand = "remove"
        THEN IF found = end
             THEN [outcome |-> "RPC_CLIENT_NODE_NOT_ADDED", vAddedNodes |-> vAddedNodes]
             ELSE [outcome |-> "ok", vAddedNodes |-> vector_erase(vAddedNodes, found)]
        ELSE [outcome |-> "ok", vAddedNodes |-> vAddedNodes]

AddnodeUpdate(strCommand, strNode, found) ==
    LET end == Len(vAddedNodes) + 1
    IN  IF strCommand = "add"
        THEN IF found # end
             THEN [outcome |-> "RPC_CLIENT_NODE_ALREADY_ADDED", vAddedNodes |-> vAddedNodes]
             ELSE [outcome |-> "ok", vAddedNodes |-> Append(vAddedNodes, strNode)]
        ELSE IF strCommand = "remove"
        THEN IF found = end
             THEN [outcome |-> "RPC_CLIENT_NODE_NOT_ADDED", vAddedNodes |-> vAddedNodes]
             ELSE [outcome |-> "ok", vAddedNodes |-> vector_erase(vAddedNodes, found)]
        ELSE [outcome |-> "ok", vAddedNodes |-> vAddedNodes]

\* Line 330: LOCK(cs_vAddedNodes) waits until no thread holds the lock.
LockFreeAlways(cs) == TRUE

LockFree(cs) == cs = NoThread

\* Lines 303-324: the call arrives; help, an argument count other than two
\* or an unknown command ends in the usage text.
addnode_call(t, help, p) ==
    LET strCommand == AddnodeCommand(p)
        usage == help \/ Len(p) # 2 \/ strCommand \notin {"onetry", "add", "remove"}
    IN  /\ pc[t] = "idle"
        /\ (~usage /\ strCommand = "onetry") => Len(vOpenRequests) < MaxRequests
        /\ op' = [op EXCEPT ![t] = "addnode"]
        /\ fHelp' = [fHelp EXCEPT ![t] = help]
        /\ params' = [params EXCEPT ![t] = p]
        /\ result' = [result EXCEPT ![t] = <<>>]
        /\ outcome' = [outcome EXCEPT ![t] = IF usage THEN "usage" ELSE "none"]
        /\ pc' = [pc EXCEPT ![t] = IF usage THEN "idle"
                                   ELSE IF strCommand = "onetry" THEN "addnode_onetry"
                                   ELSE "addnode_lock"]
        /\ UNCHANGED <<lockVars, destVars, netVars, banVars, addedVars>>

\* Lines 324-328: OpenNetworkConnection(addr, false, NULL, strNode), return.
addnode_onetry(t) ==
    /\ pc[t] = "addnode_onetry"
    /\ LET r == OnetryEffect(params[t][1])
       IN  /\ vAddedNodes' = r.vAddedNodes
           /\ vOpenRequests' = r.vOpenRequests
    /\ outcome' = [outcome EXCEPT ![t] = "ok"]
    /\ result' = [result EXCEPT ![t] = <<"null">>]
    /\ pc' = [pc EXCEPT ![t] = "idle"]
    /\ UNCHANGED <<op, fHelp, params, lockVars, destVars, netVars, banVars, vNodes, it>>

\* Line 330: LOCK(cs_vAddedNodes).
addnode_lock(t) ==
    /\ pc[t] = "addnode_lock"
    /\ LockFree(cs_vAddedNodes)
    /\ cs_vAddedNodes' = t
    /\ pc' = [pc EXCEPT ![t] = "addnode_cs"]
    /\ UNCHANGED <<op, fHelp, params, outcome, result, cs_main, cs_vNodes, cs_mapLocalHost,
                   destVars, netVars, banVars, addedVars>>

\* Lines 331-334: the search for strNode, under the lock.
addnode_search(t) ==
    /\ pc[t] = "addnode_cs"
    /\ it' = [it EXCEPT ![t] = FindAdded(params[t][1])]
    /\ pc' = [pc EXCEPT ![t] = "addnode_it"]
    /\ UNCHANGED <<op, fHelp, params, outcome, result, lockVars, destVars, netVars,
                   banVars, vAddedNodes, vNodes, vOpenRequests>>

\* Lines 336-346: add or remove or throw; the lock is released as the
\* function is left either way.
addnode_update(t) ==
    /\ pc[t] = "addnode_it"
    /\ LET r == AddnodeUpdate(params[t][2], params[t][1], it[t])
       IN  /\ vAddedNodes' = r.vAddedNodes
           /\ outcome' = [outcome EXCEPT ![t] = r.outcome]
           /\ result' = [result EXCEPT ![t] = IF r.outcome = "ok" THEN <<"null">> ELSE <<>>]
    /\ it' = [it EXCEPT ![t] = 0]
    /\ cs_vAddedNodes' = NoThread
    /\ pc' = [pc EXCEPT ![t] = "idle"]
    /\ UNCHANGED <<op, fHelp, params, cs_main, cs_vNodes, cs_mapLocalHost, destVars, netVars, banVars,
                   vNodes, vOpenRequests>>

\* ------------------------------------------------------- getaddednodeinfo

GaniParams ==
    {<<dns>> : dns \in BOOLEAN}
    \cup {<<TRUE, e>> : e \in Endpoints}
    \cup {<<>>, <<TRUE, "10.0.0.1:9", "x">>}

\* GetAddedNodeInfo(): one AddedNodeInfo per element of vAddedNodes, in
\* order, copied under cs_vAddedNodes and joined with the live peers.
GetAddedNodeInfo ==
    [n \in 1..Len(vAddedNodes) |->
        LET strAddNode == vAddedNodes[n]
            peers == {y \in DOMAIN vNodes : vNodes[y].addrName = strAddNode}
        IN  IF peers = {}
            THEN [strAddedNode |-> strAddNode, resolvedAddress |-> "",
                  fConnected |-> FALSE, fInbound |-> FALSE]
            ELSE [strAddedNode |-> strAddNode, resolvedAddress |-> strAddNode,
                  fConnected |-> TRUE, fInbound |-> vNodes[Min(peers)].fInbound]]

\* Line 408: vInfo.assign(1, info), where info refers to element j of vInfo
\* itself.  The library assigns the value to the first element and then
\* destroys the elements after it (libstdc++ and libc++ both: fill_n, then
\* erase to the end), so the element referred to is still alive when it is
\* copied and the vector ends as the one element info.
vector_assign_first(v, j) == <<v[1]>>

vector_assign(v, j) ==
    LET filled == [x \in DOMAIN v |-> IF x = 1 THEN v[j] ELSE v[x]]
    IN  <<filled[1]>>

\* Lines 404-416: with a node argument, keep the first entry with that name.
GaniFilter(vInfo, p) ==
    IF Len(p) = 2
    THEN LET hits == {j \in DOMAIN vInfo : vInfo[j].strAddedNode = p[2]}
         IN  IF hits = {} THEN [found |-> FALSE, vInfo |-> vInfo]
             ELSE [found |-> TRUE, vInfo |-> vector_assign(vInfo, Min(hits))]
    ELSE [found |-> TRUE, vInfo |-> vInfo]

\* Lines 421-432: the object for one entry.
BuildAddedObj(info) ==
    [addednode |-> info.strAddedNode,
     connected |-> info.fConnected,
     addresses |-> IF info.fConnected
                   THEN <<[address |-> info.resolvedAddress,
                           connected |-> IF info.fInbound THEN "inbound" ELSE "outbound"]>>
                   ELSE <<>>]

\* Lines 371-400: the call arrives; help or an argument count other than
\* one or two ends in the usage text.
getaddednodeinfo_call(t, help, p) ==
    LET usage == help \/ Len(p) < 1 \/ Len(p) > 2
    IN  /\ pc[t] = "idle"
        /\ op' = [op EXCEPT ![t] = "getaddednodeinfo"]
        /\ fHelp' = [fHelp EXCEPT ![t] = help]
        /\ params' = [params EXCEPT ![t] = p]
        /\ result' = [result EXCEPT ![t] = <<>>]
        /\ outcome' = [outcome EXCEPT ![t] = IF usage THEN "usage" ELSE "none"]
        /\ pc' = [pc EXCEPT ![t] = IF usage THEN "idle" ELSE "gani_run"]
        /\ UNCHANGED <<lockVars, destVars, netVars, banVars, addedVars>>

\* Lines 402-435: the snapshot (GetAddedNodeInfo takes and releases
\* cs_vAddedNodes inside), then the filter and the array, which work on the
\* thread's own copy.
getaddednodeinfo_run(t) ==
    /\ pc[t] = "gani_run"
    /\ LockFree(cs_vAddedNodes)
    /\ LET f == GaniFilter(GetAddedNodeInfo, params[t])
       IN  IF f.found
           THEN /\ outcome' = [outcome EXCEPT ![t] = "ok"]
                /\ result' = [result EXCEPT ![t] =
                                <<[x \in 1..Len(f.vInfo) |-> BuildAddedObj(f.vInfo[x])]>>]
           ELSE /\ outcome' = [outcome EXCEPT ![t] = "RPC_CLIENT_NODE_NOT_ADDED"]
                /\ result' = [result EXCEPT ![t] = <<>>]
    /\ pc' = [pc EXCEPT ![t] = "idle"]
    /\ UNCHANGED <<op, fHelp, params, lockVars, destVars, netVars, banVars, addedVars>>

\* ---------------------------------------------------------- switchnetwork

SwitchParams == {<<>>, <<"x">>}

NotSeen == [read |-> FALSE, writes |-> 0]

SwitchPcs == {"switch_read", "switch_set", "switch_return"}

\* Line 467: the argument of SetNetworkActive, from the flag as read.
SwitchArgOff(active) == FALSE

SwitchArg(active) == ~active

\* SetNetworkActive(active): the flag takes the value.
SetNetworkActive(active) == active

\* Lines 461-465: the call arrives; help or any argument ends in the usage
\* text.
switchnetwork_call(t, help, p) ==
    LET usage == help \/ Len(p) # 0
    IN  /\ pc[t] = "idle"
        /\ ~usage =>
              Len(netLog) + Cardinality({u \in Threads : pc[u] \in SwitchPcs}) < MaxSwitchCalls
        /\ op' = [op EXCEPT ![t] = "switchnetwork"]
        /\ fHelp' = [fHelp EXCEPT ![t] = help]
        /\ params' = [params EXCEPT ![t] = p]
        /\ result' = [result EXCEPT ![t] = <<>>]
        /\ outcome' = [outcome EXCEPT ![t] = IF usage THEN "usage" ELSE "none"]
        /\ pc' = [pc EXCEPT ![t] = IF usage THEN "idle" ELSE "switch_read"]
        /\ UNCHANGED <<nonNetVars, netVars>>

\* Line 467, the argument: !fNetworkActive is evaluated.
switchnetwork_read(t) ==
    /\ pc[t] = "switch_read"
    /\ fActiveArg' = [fActiveArg EXCEPT ![t] = SwitchArg(fNetworkActive)]
    /\ netSeen' = [netSeen EXCEPT ![t] = [read |-> fNetworkActive, writes |-> nNetWrites]]
    /\ pc' = [pc EXCEPT ![t] = "switch_set"]
    /\ UNCHANGED <<op, fHelp, params, outcome, result, nonNetVars,
                   fNetworkActive, nNetWrites, netLog>>

\* Line 467, the call: SetNetworkActive writes the flag.
switchnetwork_set(t) ==
    /\ pc[t] = "switch_set"
    /\ fNetworkActive' = SetNetworkActive(fActiveArg[t])
    /\ nNetWrites' = nNetWrites + 1
    /\ pc' = [pc EXCEPT ![t] = "switch_return"]
    /\ UNCHANGED <<op, fHelp, params, outcome, result, nonNetVars,
                   fActiveArg, netSeen, netLog>>

\* Line 469: return fNetworkActive, the flag as it is now.
switchnetwork_return(t) ==
    /\ pc[t] = "switch_return"
    /\ outcome' = [outcome EXCEPT ![t] = "ok"]
    /\ result' = [result EXCEPT ![t] = <<fNetworkActive>>]
    /\ netLog' = Append(netLog, [thread |-> t, read |-> netSeen[t].read,
                                 wrote |-> fActiveArg[t], ret |-> fNetworkActive,
                                 w0 |-> netSeen[t].writes, w1 |-> nNetWrites])
    /\ fActiveArg' = [fActiveArg EXCEPT ![t] = FALSE]
    /\ netSeen' = [netSeen EXCEPT ![t] = NotSeen]
    /\ pc' = [pc EXCEPT ![t] = "idle"]
    /\ UNCHANGED <<op, fHelp, params, nonNetVars, fNetworkActive, nNetWrites>>

\* ---------------------------------------------------- addresses and subnets

\* Network addresses are two-bit numbers here (0..3): wide enough for a
\* subnet that holds two addresses, one that holds one, and an address
\* outside both.
NetAddrs == 0..3

\* An invalid CNetAddr (what the constructor leaves when the text cannot be
\* parsed; IsValid() is false).
NoAddr == -1

Digits == <<"0", "1", "2", "3">>

DigitValue(c) == (CHOOSE n \in DOMAIN Digits : Digits[n] = c) - 1

IsDigit(c) == \E n \in DOMAIN Digits : Digits[n] = c

\* The addresses that agree with a on the first n bits start at this one.
MaskAddr(a, n) == (a \div 2^(2 - n)) * 2^(2 - n)

\* A CSubNet: network address, prefix length, validity.
NoSubNet == [network |-> 0, bits |-> 0, valid |-> FALSE]

\* CSubNet(address, prefix length): the constructor clears the host bits.
SubNet(a, n) == [network |-> MaskAddr(a, n), bits |-> n, valid |-> TRUE]

\* CSubNet(const CNetAddr&): the subnet of that one address.
SubNetOf(a) == SubNet(a, 2)

\* CNetAddr(const std::string&): one digit is an address; anything else
\* leaves the address invalid.
ParseNetAddr(s) ==
    IF Len(s) = 1 /\ IsDigit(s[1]) THEN DigitValue(s[1]) ELSE NoAddr

\* CSubNet(const std::string&): "<address>/<prefix length>".
ParseSubNet(s) ==
    IF /\ Len(s) = 3
       /\ IsDigit(s[1])
       /\ s[2] = "/"
       /\ IsDigit(s[3])
       /\ DigitValue(s[3]) <= 2
    THEN SubNet(DigitValue(s[1]), DigitValue(s[3]))
    ELSE NoSubNet

\* CSubNet::ToString().
SubNetToString(subNet) == <<Digits[subNet.network + 1], "/", Digits[subNet.bits + 1]>>

\* CSubNet::Match(addr): addr lies inside the subnet.
Match(subNet, a) == subNet.valid /\ a \in NetAddrs /\ MaskAddr(a, subNet.bits) = subNet.network

\* operator<(CSubNet, CSubNet), the order of the ban map.
SubNetLess(a, b) ==
    \/ a.network < b.network
    \/ a.network = b.network /\ a.bits < b.bits

\* CAddress::ToString() of a peer at address a (every peer uses port 9).
AddrNames == <<"10.0.0.0:9", "10.0.0.1:9", "10.0.0.2:9", "10.0.0.3:9">>

\* ---------------------------------------------------------------- ban table

BanReasonManually == "manually added"

\* GetArg("-bantime", 60*60*24), in the time unit of the model.
DefaultBanTime == MaxBanTime + 1

\* GetTime().
GetTime == nTime

\* Time passes.
clock_Tick ==
    /\ nTime < MaxTime
    /\ nTime' = nTime + 1
    /\ UNCHANGED <<rpcVars, lockVars, destVars, addedVars, netVars,
                   setBanned, banDb, vPending, nNextId, bannedNode, banSeen, pNode>>

\* CNode::IsBanned(CNetAddr): some unexpired entry covers the address.
IsBanned(a) ==
    \E subNet \in DOMAIN setBanned :
        Match(subNet, a) /\ GetTime < setBanned[subNet].nBanUntil

\* CNode::IsBanned(CSubNet): that very key has an unexpired entry.
IsBannedSubNet(subNet) ==
    subNet \in DOMAIN setBanned /\ GetTime < setBanned[subNet].nBanUntil

\* CNode::Ban(subNet, banReason, bantimeoffset, sinceUnixEpoch): the ban
\* table with the entry for subNet.  A bantime that is zero (or less) means
\* the default duration, counted from now.
Ban(subNet, banReason, bantimeoffset, sinceUnixEpoch) ==
    LET offset == IF bantimeoffset <= 0 THEN DefaultBanTime ELSE bantimeoffset
        since  == IF bantimeoffset <= 0 THEN FALSE ELSE sinceUnixEpoch
        banEntry == [nCreateTime |-> GetTime,
                     nBanUntil   |-> (IF since THEN 0 ELSE GetTime) + offset,
                     banReason   |-> banReason]
    IN  [x \in DOMAIN setBanned \cup {subNet} |->
            IF x = subNet THEN banEntry ELSE setBanned[x]]

\* CNode::Unban(subNet): whether an entry was erased, and the table after.
Unban(subNet) ==
    IF subNet \in DOMAIN setBanned
    THEN [erased |-> TRUE,
          setBanned |-> [x \in DOMAIN setBanned \ {subNet} |-> setBanned[x]]]
    ELSE [erased |-> FALSE, setBanned |-> setBanned]

\* CNode::GetBanned(banMap): a copy of the table.
GetBanned == setBanned

\* CNode::ClearBanned().
ClearBanned == [x \in {} |-> x]

\* DumpBanlist(): the table as it is now goes to the ban database.
DumpBanlist == GetBanned

\* ------------------------------------------- connection manager and bans

\* FindNode's "no such node" (NULL).
NoNode == -1

NodeIds == {vNodes[x].id : x \in DOMAIN vNodes}

\* A connection with the peer at address a starts: the connection manager
\* refuses a banned address, and otherwise goes on to set the connection up
\* (CNode::IsBanned in the accept path and in OpenNetworkConnection).
\* At most n connections are set up in all.
net_CheckBannedUpTo(a, n) ==
    /\ nNextId + Cardinality(vPending) < n
    /\ a \notin vPending
    /\ ~IsBanned(a)
    /\ vPending' = vPending \cup {a}
    /\ UNCHANGED <<rpcVars, lockVars, destVars, addedVars, netVars,
                   setBanned, banDb, nTime, nNextId, bannedNode, banSeen, pNode>>

net_CheckBanned(a) == net_CheckBannedUpTo(a, MaxConn)

\* The connection is up: the new node is appended to vNodes.
net_AddNode(a) ==
    /\ a \in vPending
    /\ cs_vNodes = NoThread
    /\ vNodes' = Append(vNodes, [id |-> nNextId, addr |-> a, addrName |-> AddrNames[a + 1],
                                 fInbound |-> TRUE, fDisconnect |-> FALSE])
    /\ nNextId' = nNextId + 1
    /\ vPending' = vPending \ {a}
    /\ UNCHANGED <<rpcVars, lockVars, destVars, vAddedNodes, vOpenRequests, netVars,
                   setBanned, banDb, nTime, bannedNode, banSeen, pNode, it>>

\* The socket handler drops a node whose fDisconnect is set.
net_SocketHandler(p) ==
    /\ p \in DOMAIN vNodes
    /\ cs_vNodes = NoThread
    /\ vNodes[p].fDisconnect
    /\ vNodes' = RemoveAt(vNodes, p)
    /\ UNCHANGED <<rpcVars, lockVars, destVars, vAddedNodes, vOpenRequests, netVars, banVars, it>>

\* The peer closes its end or the socket fails: the socket handler closes
\* the socket and sets fDisconnect, and drops the node on a later pass.
net_PeerCloses(p) ==
    /\ p \in DOMAIN vNodes
    /\ cs_vNodes = NoThread
    /\ ~vNodes[p].fDisconnect
    /\ vNodes' = [vNodes EXCEPT ![p].fDisconnect = TRUE]
    /\ UNCHANGED <<rpcVars, lockVars, destVars, vAddedNodes, vOpenRequests, netVars, banVars, it>>

\* The id of the first node of vNodes at one of those positions, or NoNode.
FirstNode(at) == IF at = {} THEN NoNode ELSE vNodes[Min(at)].id

\* FindNode(const CSubNet&): the first node whose address is in the subnet.
FindNodeSubNet(subNet) ==
    FirstNode({x \in DOMAIN vNodes : Match(subNet, vNodes[x].addr)})

\* FindNode(const CNetAddr&): the first node at that address, any port.
FindNodeAddr(a) ==
    FirstNode({x \in DOMAIN vNodes : vNodes[x].addr = a})

\* CNode::CloseSocketDisconnect() on the node with that id: the socket is
\* closed and fDisconnect set; the socket handler removes the node later.
\* If the node has already been removed, the live set is not affected.
CloseSocketDisconnect(id) ==
    [x \in DOMAIN vNodes |->
        IF vNodes[x].id = id THEN [vNodes[x] EXCEPT !.fDisconnect = TRUE] ELSE vNodes[x]]

\* ------------------------------------------------------------------ setban

\* The first argument of setban: an address, a subnet, a subnet written
\* with host bits set, and two texts that are neither.
BanTexts == {<<"1">>, <<"0", "/", "1">>, <<"1", "/", "1">>, <<"x">>, <<"0", "/", "9">>}

BanTimes == 0..MaxBanTime

SetbanParams ==
    {<<x, c>> : x \in BanTexts, c \in {"add", "remove"}}
    \cup {<<<<"1">>, "add", MaxBanTime>>}
    \cup {<<<<"0", "/", "1">>, "add", b, a>> : b \in BanTimes, a \in BOOLEAN}
    \cup {<<<<"1">>>>, <<<<"1">>, "bad">>, <<<<"1">>, "add", 1, TRUE, "x">>}

\* Lines 556-558: the command, when there are at least two arguments.
SetbanCommand(p) == IF Len(p) >= 2 THEN p[2] ELSE ""

\* Lines 559-561: what ends in the usage text.
SetbanUsage(help, p) ==
    help \/ Len(p) < 2 \/ (SetbanCommand(p) # "add" /\ SetbanCommand(p) # "remove")

\* Lines 580-581: a "/" in the first argument makes it a subnet.
SetbanIsSubnet(p) == string_find(p[1], <<"/">>) # npos

\* Lines 583-586: the address or the subnet the first argument parses to.
SetbanNetAddr(p) == IF ~SetbanIsSubnet(p) THEN ParseNetAddr(p[1]) ELSE NoAddr

SetbanSubNet(p) == IF SetbanIsSubnet(p) THEN ParseSubNet(p[1]) ELSE NoSubNet

\* Line 588: subNet.IsValid() or netAddr.IsValid().
SetbanValid(p) ==
    IF SetbanIsSubnet(p) THEN SetbanSubNet(p).valid ELSE SetbanNetAddr(p) # NoAddr

\* The key of the ban table that the call is about: CNode::Ban and
\* CNode::Unban turn an address into the subnet of that one address.
SetbanKey(p) == IF SetbanIsSubnet(p) THEN SetbanSubNet(p) ELSE SubNetOf(SetbanNetAddr(p))

\* Line 593: the already-banned test.
SetbanAlreadyBannedNever(p) == FALSE

SetbanAlreadyBanned(p) ==
    IF SetbanIsSubnet(p) THEN IsBannedSubNet(SetbanSubNet(p)) ELSE IsBanned(SetbanNetAddr(p))

\* Lines 596-598: the bantime argument, 0 when there is none.
SetbanBanTime(p) == IF Len(p) >= 3 THEN p[3] ELSE 0

\* Lines 600-602: the absolute argument, read when there are exactly four.
SetbanAbsolute(p) == IF Len(p) = 4 THEN p[4] ELSE FALSE

\* Line 607: FindNode(subNet) or FindNode(netAddr).
SetbanFindNode(p) ==
    IF SetbanIsSubnet(p) THEN FindNodeSubNet(SetbanSubNet(p)) ELSE FindNodeAddr(SetbanNetAddr(p))

\* Lines 607-608: after CloseSocketDisconnect the loop looks again.
SetbanAfterCloseOnce == "setban_dump"

SetbanAfterClose == "setban_find"

\* Line 616: DumpBanlist() follows the add branch and the remove branch.
SetbanDumpAddOnly(strCommand) == IF strCommand = "add" THEN DumpBanlist ELSE banDb

SetbanDump(strCommand) == DumpBanlist

\* Lines 554-574: the call arrives; help, fewer than two arguments or a
\* command other than add and remove ends in the usage text.
setban_call(t, help, p) ==
    LET usage == SetbanUsage(help, p)
    IN  /\ pc[t] = "idle"
        /\ op' = [op EXCEPT ![t] = "setban"]
        /\ fHelp' = [fHelp EXCEPT ![t] = help]
        /\ params' = [params EXCEPT ![t] = p]
        /\ result' = [result EXCEPT ![t] = <<>>]
        /\ outcome' = [outcome EXCEPT ![t] = IF usage THEN "usage" ELSE "none"]
        /\ pc' = [pc EXCEPT ![t] = IF usage THEN "idle" ELSE "setban_parse"]
        /\ bannedNode' = [bannedNode EXCEPT ![t] = NoNode]
        /\ banSeen' = [banSeen EXCEPT ![t] = {}]
        /\ UNCHANGED <<lockVars, destVars, addedVars, netVars,
                       setBanned, banDb, nTime, vPending, nNextId, pNode>>

\* Lines 576-589: the first argument is parsed; a text that is neither an
\* address nor a subnet is an error.
setban_parse(t) ==
    /\ pc[t] = "setban_parse"
    /\ IF ~SetbanValid(params[t])
       THEN /\ outcome' = [outcome EXCEPT ![t] = "RPC_CLIENT_NODE_ALREADY_ADDED"]
            /\ pc' = [pc EXCEPT ![t] = "idle"]
       ELSE /\ outcome' = outcome
            /\ pc' = [pc EXCEPT ![t] = IF SetbanCommand(params[t]) = "add"
                                       THEN "setban_check" ELSE "setban_unban"]
    /\ UNCHANGED <<op, fHelp, params, result, lockVars, destVars, addedVars, netVars, banVars>>

\* Lines 591-594: add of what is banned already is an error.
setban_check(t) ==
    /\ pc[t] = "setban_check"
    /\ IF SetbanAlreadyBanned(params[t])
       THEN /\ outcome' = [outcome EXCEPT ![t] = "RPC_CLIENT_NODE_ALREADY_ADDED"]
            /\ pc' = [pc EXCEPT ![t] = "idle"]
       ELSE /\ outcome' = outcome
            /\ pc' = [pc EXCEPT ![t] = "setban_ban"]
    /\ UNCHANGED <<op, fHelp, params, result, lockVars, destVars, addedVars, netVars, banVars>>

\* Lines 596-604: CNode::Ban with the bantime and absolute arguments.
setban_ban(t) ==
    /\ pc[t] = "setban_ban"
    /\ setBanned' = Ban(SetbanKey(params[t]), BanReasonManually,
                        SetbanBanTime(params[t]), SetbanAbsolute(params[t]))
    /\ banSeen' = [banSeen EXCEPT ![t] =
                     {vNodes[x].id : x \in {y \in DOMAIN vNodes :
                                               Match(SetbanKey(params[t]), vNodes[y].addr)}}]
    /\ pc' = [pc EXCEPT ![t] = "setban_find"]
    /\ UNCHANGED <<op, fHelp, params, outcome, result, lockVars, destVars, addedVars,
                   netVars, banDb, nTime, vPending, nNextId, bannedNode, pNode>>

\* Line 607: the loop condition, FindNode under cs_vNodes.
setban_find(t) ==
    /\ pc[t] = "setban_find"
    /\ cs_vNodes = NoThread
    /\ bannedNode' = [bannedNode EXCEPT ![t] = SetbanFindNode(params[t])]
    /\ pc' = [pc EXCEPT ![t] = IF SetbanFindNode(params[t]) = NoNode
                               THEN "setban_dump" ELSE "setban_close"]
    /\ UNCHANGED <<op, fHelp, params, outcome, result, lockVars, destVars, addedVars,
                   netVars, setBanned, banDb, nTime, vPending, nNextId, banSeen, pNode>>

\* Line 608: bannedNode->CloseSocketDisconnect().
setban_close(t) ==
    /\ pc[t] = "setban_close"
    /\ vNodes' = CloseSocketDisconnect(bannedNode[t])
    /\ pc' = [pc EXCEPT ![t] = SetbanAfterClose]
    /\ UNCHANGED <<op, fHelp, params, outcome, result, lockVars, destVars, vAddedNodes,
                   vOpenRequests, netVars, banVars, it>>

\* Line 612: the call fails when CNode::Unban returns false.
SetbanUnbanThrowsInverted(erased) == erased

SetbanUnbanThrows(erased) == ~erased

\* Lines 610-614: CNode::Unban; when nothing was erased, an error.
setban_unban(t) ==
    /\ pc[t] = "setban_unban"
    /\ LET r == Unban(SetbanKey(params[t]))
       IN  /\ setBanned' = r.setBanned
           /\ IF SetbanUnbanThrows(r.erased)
              THEN /\ outcome' = [outcome EXCEPT ![t] = "RPC_MISC_ERROR"]
                   /\ pc' = [pc EXCEPT ![t] = "idle"]
              ELSE /\ outcome' = outcome
                   /\ pc' = [pc EXCEPT ![t] = "setban_dump"]
    /\ UNCHANGED <<op, fHelp, params, result, lockVars, destVars, addedVars, netVars,
                   banDb, nTime, vPending, nNextId, bannedNode, banSeen, pNode>>

\* Lines 616-617: DumpBanlist(), return null.
setban_dump(t) ==
    /\ pc[t] = "setban_dump"
    /\ banDb' = SetbanDump(SetbanCommand(params[t]))
    /\ outcome' = [outcome EXCEPT ![t] = "ok"]
    /\ result' = [result EXCEPT ![t] = <<"null">>]
    /\ pc' = [pc EXCEPT ![t] = "idle"]
    /\ UNCHANGED <<op, fHelp, params, lockVars, destVars, addedVars, netVars,
                   setBanned, nTime, vPending, nNextId, bannedNode, banSeen, pNode>>

\* -------------------------------------------------- listbanned, clearbanned

ZeroParams == {<<>>, <<"x">>}

\* The keys of a ban map in the order the map iterates them.
RECURSIVE BanMapOrder(_)
BanMapOrder(S) ==
    IF S = {} THEN <<>>
    ELSE LET first == CHOOSE x \in S : \A y \in S \ {x} : SubNetLess(x, y)
         IN  <<first>> \o BanMapOrder(S \ {first})

\* banReasonToString().
banReasonToString(banReason) == banReason

\* Lines 637-644: the object for one entry.
BuildBanRecIP(subNet, banEntry) ==
    [address      |-> <<Digits[subNet.network + 1]>>,
     banned_until |-> banEntry.nBanUntil,
     ban_created  |-> banEntry.nCreateTime,
     ban_reason   |-> banReasonToString(banEntry.banReason)]

BuildBanRec(subNet, banEntry) ==
    [address      |-> SubNetToString(subNet),
     banned_until |-> banEntry.nBanUntil,
     ban_created  |-> banEntry.nCreateTime,
     ban_reason   |-> banReasonToString(banEntry.banReason)]

\* Lines 631-647: one object per entry of the copy, in map order.
ListBanned(banMap) ==
    LET order == BanMapOrder(DOMAIN banMap)
    IN  [x \in 1..Len(order) |-> BuildBanRec(order[x], banMap[order[x]])]

\* Lines 620-629: the call arrives; help or any argument ends in the usage
\* text.
listbanned_call(t, help, p) ==
    LET usage == help \/ Len(p) # 0
    IN  /\ pc[t] = "idle"
        /\ op' = [op EXCEPT ![t] = "listbanned"]
        /\ fHelp' = [fHelp EXCEPT ![t] = help]
        /\ params' = [params EXCEPT ![t] = p]
        /\ result' = [result EXCEPT ![t] = <<>>]
        /\ outcome' = [outcome EXCEPT ![t] = IF usage THEN "usage" ELSE "none"]
        /\ pc' = [pc EXCEPT ![t] = IF usage THEN "idle" ELSE "listbanned_run"]
        /\ UNCHANGED <<lockVars, destVars, addedVars, netVars, banVars>>

\* Lines 631-647: CNode::GetBanned(banMap), then the array.
listbanned_run(t) ==
    /\ pc[t] = "listbanned_run"
    /\ outcome' = [outcome EXCEPT ![t] = "ok"]
    /\ result' = [result EXCEPT ![t] = <<ListBanned(GetBanned)>>]
    /\ pc' = [pc EXCEPT ![t] = "idle"]
    /\ UNCHANGED <<op, fHelp, params, lockVars, destVars, addedVars, netVars, banVars>>

\* Lines 650-659: the call arrives; help or any argument ends in the usage
\* text.
clearbanned_call(t, help, p) ==
    LET usage == help \/ Len(p) # 0
    IN  /\ pc[t] = "idle"
        /\ op' = [op EXCEPT ![t] = "clearbanned"]
        /\ fHelp' = [fHelp EXCEPT ![t] = help]
        /\ params' = [params EXCEPT ![t] = p]
        /\ result' = [result EXCEPT ![t] = <<>>]
        /\ outcome' = [outcome EXCEPT ![t] = IF usage THEN "usage" ELSE "none"]
        /\ pc' = [pc EXCEPT ![t] = IF usage THEN "idle" ELSE "clearbanned_clear"]
        /\ UNCHANGED <<lockVars, destVars, addedVars, netVars, banVars>>

\* A clear that sweeps only the entries that have expired.
ClearbannedSweep == [x \in {y \in DOMAIN setBanned : nTime < setBanned[y].nBanUntil} |->
                        setBanned[x]]

\* Line 661: the table after the call of CNode::ClearBanned().
ClearbannedTable == ClearBanned

\* Line 661: CNode::ClearBanned().
clearbanned_clear(t) ==
    /\ pc[t] = "clearbanned_clear"
    /\ setBanned' = ClearbannedTable
    /\ pc' = [pc EXCEPT ![t] = "clearbanned_dump"]
    /\ UNCHANGED <<op, fHelp, params, outcome, result, lockVars, destVars, addedVars,
                   netVars, banDb, nTime, vPending, nNextId, bannedNode, banSeen, pNode>>

\* Lines 662-664: DumpBanlist(), return null.
clearbanned_dump(t) ==
    /\ pc[t] = "clearbanned_dump"
    /\ banDb' = DumpBanlist
    /\ outcome' = [outcome EXCEPT ![t] = "ok"]
    /\ result' = [result EXCEPT ![t] = <<"null">>]
    /\ pc' = [pc EXCEPT ![t] = "idle"]
    /\ UNCHANGED <<op, fHelp, params, lockVars, destVars, addedVars, netVars,
                   setBanned, nTime, vPending, nNextId, bannedNode, banSeen, pNode>>

\* ---------------------------------------------------------- disconnectnode

DisconnectParams == {<<"10.0.0.0:9">>, <<"10.0.0.1:9">>, <<>>, <<"10.0.0.1:9", "x">>}

\* A FindNode that takes the first node, whatever its name.
FindNodeFirst(strNode) == FirstNode(DOMAIN vNodes)

\* FindNode(const std::string&): the first node with that address name.
FindNodeName(strNode) ==
    FirstNode({x \in DOMAIN vNodes : vNodes[x].addrName = strNode})

\* Lines 349-360: the call arrives; help or an argument count other than
\* one ends in the usage text.
disconnectnode_call(t, help, p) ==
    LET usage == help \/ Len(p) # 1
    IN  /\ pc[t] = "idle"
        /\ op' = [op EXCEPT ![t] = "disconnectnode"]
        /\ fHelp' = [fHelp EXCEPT ![t] = help]
        /\ params' = [params EXCEPT ![t] = p]
        /\ result' = [result EXCEPT ![t] = <<>>]
        /\ outcome' = [outcome EXCEPT ![t] = IF usage THEN "usage" ELSE "none"]
        /\ pc' = [pc EXCEPT ![t] = IF usage THEN "idle" ELSE "disconnect_find"]
        /\ pNode' = [pNode EXCEPT ![t] = NoNode]
        /\ UNCHANGED <<lockVars, destVars, addedVars, netVars,
                       setBanned, banDb, nTime, vPending, nNextId, bannedNode, banSeen>>

\* Lines 362-364: FindNode under cs_vNodes; no such node is an error.
disconnectnode_find(t) ==
    /\ pc[t] = "disconnect_find"
    /\ cs_vNodes = NoThread
    /\ pNode' = [pNode EXCEPT ![t] = FindNodeName(params[t][1])]
    /\ IF FindNodeName(params[t][1]) = NoNode
       THEN /\ outcome' = [outcome EXCEPT ![t] = "RPC_CLIENT_NODE_NOT_CONNECTED"]
            /\ pc' = [pc EXCEPT ![t] = "idle"]
       ELSE /\ outcome' = outcome
            /\ pc' = [pc EXCEPT ![t] = "disconnect_close"]
    /\ UNCHANGED <<op, fHelp, params, result, lockVars, destVars, addedVars, netVars,
                   setBanned, banDb, nTime, vPending, nNextId, bannedNode, banSeen>>

\* Lines 366-368: pNode->CloseSocketDisconnect(), return null.
disconnectnode_close(t) ==
    /\ pc[t] = "disconnect_close"
    /\ vNodes' = CloseSocketDisconnect(pNode[t])
    /\ outcome' = [outcome EXCEPT ![t] = "ok"]
    /\ result' = [result EXCEPT ![t] = <<"null">>]
    /\ pc' = [pc EXCEPT ![t] = "idle"]
    /\ UNCHANGED <<op, fHelp, params, lockVars, destVars, vAddedNodes, vOpenRequests,
                   netVars, banVars, it>>

\* --------------- getconnectioncount, ping, getpeerinfo, getnetworkinfo

\* The connection manager, as the holder of a lock.
NetThread == "net"

\* The connection manager takes cs_vNodes to change the live peers.
net_LockNodes ==
    /\ cs_vNodes = NoThread
    /\ cs_vNodes' = NetThread
    /\ UNCHANGED <<rpcVars, cs_main, cs_vAddedNodes, cs_mapLocalHost, destVars, addedVars,
                   netVars, banVars>>

\* Under cs_vNodes, vNodes.push_back of the node of a new peer at address a.
net_PushBack(a) ==
    /\ cs_vNodes = NetThread
    /\ nNextId < MaxLive
    /\ vNodes' = Append(vNodes, [id |-> nNextId, addr |-> a, addrName |-> AddrNames[a + 1],
                                 fInbound |-> TRUE, fDisconnect |-> FALSE,
                                 fPingQueued |-> FALSE])
    /\ nNextId' = nNextId + 1
    /\ UNCHANGED <<rpcVars, lockVars, destVars, vAddedNodes, vOpenRequests, it, netVars,
                   setBanned, banDb, nTime, vPending, bannedNode, banSeen, pNode>>

\* Under cs_vNodes, vNodes.erase of a node.
net_Erase(p) ==
    /\ cs_vNodes = NetThread
    /\ p \in DOMAIN vNodes
    /\ vNodes' = RemoveAt(vNodes, p)
    /\ UNCHANGED <<rpcVars, lockVars, destVars, vAddedNodes, vOpenRequests, it, netVars,
                   banVars>>

net_UnlockNodes ==
    /\ cs_vNodes = NetThread
    /\ cs_vNodes' = NoThread
    /\ UNCHANGED <<rpcVars, cs_main, cs_vAddedNodes, cs_mapLocalHost, destVars, addedVars,
                   netVars, banVars>>

\* The connection manager takes and leaves cs_mapLocalHost (AddLocal,
\* SeenLocal, GetLocal).
net_LockLocal ==
    /\ cs_mapLocalHost = NoThread
    /\ cs_mapLocalHost' = NetThread
    /\ UNCHANGED <<rpcVars, cs_main, cs_vNodes, cs_vAddedNodes, destVars, addedVars,
                   netVars, banVars>>

net_UnlockLocal ==
    /\ cs_mapLocalHost = NetThread
    /\ cs_mapLocalHost' = NoThread
    /\ UNCHANGED <<rpcVars, cs_main, cs_vNodes, cs_vAddedNodes, destVars, addedVars,
                   netVars, banVars>>

\* The table of local addresses, which no handler of this file changes.
mapLocalHost == <<[address |-> "10.0.0.9", port |-> 9, score |-> 1]>>

\* A lock that is never given back.
UnlockNever(cs, t) == cs

\* The end of the scope of a LOCK: the lock is free again if t held it.
Unlock(cs, t) == IF cs = t THEN NoThread ELSE cs

\* What vNodes.size() can give thread t: the size, when no other thread is
\* inside cs_vNodes; any count, when the connection manager is changing the
\* vector at the same time (the read races with push_back and erase).
VectorSize(t) == IF cs_vNodes \in {NoThread, t} THEN {Len(vNodes)} ELSE 0..MaxLive

\* The handlers that take no argument: help or any argument ends in the
\* usage text before a lock is taken (lines 28, 43, 218, 493).
info_call(t, o, help, p, first) ==
    LET usage == help \/ Len(p) # 0
    IN  /\ pc[t] = "idle"
        /\ op' = [op EXCEPT ![t] = o]
        /\ fHelp' = [fHelp EXCEPT ![t] = help]
        /\ params' = [params EXCEPT ![t] = p]
        /\ result' = [result EXCEPT ![t] = <<>>]
        /\ outcome' = [outcome EXCEPT ![t] = IF usage THEN "usage" ELSE "none"]
        /\ pc' = [pc EXCEPT ![t] = IF usage THEN "idle" ELSE first]
        /\ UNCHANGED <<lockVars, destVars, addedVars, netVars, banVars>>

\* LOCK2(cs_main, cs_vNodes) at position at: cs_main first, then cs_vNodes
\* while cs_main is held; then on to position next.
info_lock2(t, at, next) ==
    /\ pc[t] = at
    /\ IF cs_main # t
       THEN /\ cs_main = NoThread
            /\ cs_main' = t
            /\ UNCHANGED <<cs_vNodes, pc>>
       ELSE /\ cs_vNodes = NoThread
            /\ cs_vNodes' = t
            /\ cs_main' = cs_main
            /\ pc' = [pc EXCEPT ![t] = next]
    /\ UNCHANGED <<op, fHelp, params, outcome, result, cs_vAddedNodes, cs_mapLocalHost,
                   destVars, addedVars, netVars, banVars>>

\* LOCK(cs_main) at position at; then on to position next.
info_lock_main(t, at, next) ==
    /\ pc[t] = at
    /\ cs_main = NoThread
    /\ cs_main' = t
    /\ pc' = [pc EXCEPT ![t] = next]
    /\ UNCHANGED <<op, fHelp, params, outcome, result, cs_vNodes, cs_vAddedNodes,
                   cs_mapLocalHost, destVars, addedVars, netVars, banVars>>

\* Lines 26-35.
getconnectioncount_call(t, help, p) == info_call(t, "getconnectioncount", help, p, "count_lock")

\* Line 37: LOCK2(cs_main, cs_vNodes).
getconnectioncount_lock(t) == info_lock2(t, "count_lock", "count_read")

\* Lines 38-39: return (int)vNodes.size(); both locks end with the scope.
getconnectioncount_read(t) ==
    /\ pc[t] = "count_read"
    /\ \E n \in VectorSize(t) : result' = [result EXCEPT ![t] = <<n>>]
    /\ outcome' = [outcome EXCEPT ![t] = "ok"]
    /\ cs_vNodes' = Unlock(cs_vNodes, t)
    /\ cs_main' = Unlock(cs_main, t)
    /\ pc' = [pc EXCEPT ![t] = "idle"]
    /\ UNCHANGED <<op, fHelp, params, cs_vAddedNodes, cs_mapLocalHost, destVars, addedVars,
                   netVars, banVars>>

\* Lines 41-50.
ping_call(t, help, p) == info_call(t, "ping", help, p, "ping_lock")

\* Line 53: LOCK2(cs_main, cs_vNodes).
ping_lock(t) == info_lock2(t, "ping_lock", "ping_run")

\* Lines 54-58: every node gets fPingQueued; return null.
ping_run(t) ==
    /\ pc[t] = "ping_run"
    /\ vNodes' = [x \in DOMAIN vNodes |-> [vNodes[x] EXCEPT !.fPingQueued = TRUE]]
    /\ result' = [result EXCEPT ![t] = <<"null">>]
    /\ outcome' = [outcome EXCEPT ![t] = "ok"]
    /\ cs_vNodes' = Unlock(cs_vNodes, t)
    /\ cs_main' = Unlock(cs_main, t)
    /\ pc' = [pc EXCEPT ![t] = "idle"]
    /\ UNCHANGED <<op, fHelp, params, cs_vAddedNodes, cs_mapLocalHost, destVars,
                   vAddedNodes, vOpenRequests, it, netVars, banVars>>

\* Lines 209-214: one CNodeStats per node, in the order of vNodes.
CopyNodeStats ==
    [x \in DOMAIN vNodes |-> [nodeid |-> vNodes[x].id, addrName |-> vNodes[x].addrName,
                              fInbound |-> vNodes[x].fInbound]]

\* Lines 262-296: the object for one peer (of its fields, the ones that
\* the model of a node has).
BuildPeerObj(stats) == [id |-> stats.nodeid, addr |-> stats.addrName, inbound |-> stats.fInbound]

\* Lines 216-252.
getpeerinfo_call(t, help, p) == info_call(t, "getpeerinfo", help, p, "peers_main")

\* Line 254: LOCK(cs_main).
getpeerinfo_lock(t) == info_lock_main(t, "peers_main", "peers_nodes")

\* Line 208, in CopyNodeStats: LOCK(cs_vNodes), with cs_main held.
getpeerinfo_lock_nodes(t) ==
    /\ pc[t] = "peers_nodes"
    /\ cs_vNodes = NoThread
    /\ cs_vNodes' = t
    /\ pc' = [pc EXCEPT ![t] = "peers_copy"]
    /\ UNCHANGED <<op, fHelp, params, outcome, result, cs_main, cs_vAddedNodes,
                   cs_mapLocalHost, destVars, addedVars, netVars, banVars>>

\* Lines 209-215: the copy into vstats; cs_vNodes ends with CopyNodeStats.
getpeerinfo_copy(t) ==
    /\ pc[t] = "peers_copy"
    /\ result' = [result EXCEPT ![t] = <<CopyNodeStats>>]
    /\ cs_vNodes' = Unlock(cs_vNodes, t)
    /\ pc' = [pc EXCEPT ![t] = "peers_return"]
    /\ UNCHANGED <<op, fHelp, params, outcome, cs_main, cs_vAddedNodes, cs_mapLocalHost,
                   destVars, addedVars, netVars, banVars>>

\* Lines 259-300: the array, from vstats; cs_main ends with the handler.
getpeerinfo_return(t) ==
    /\ pc[t] = "peers_return"
    /\ LET vstats == result[t][1]
       IN  result' = [result EXCEPT ![t] =
                        <<[x \in DOMAIN vstats |-> BuildPeerObj(vstats[x])]>>]
    /\ outcome' = [outcome EXCEPT ![t] = "ok"]
    /\ cs_main' = Unlock(cs_main, t)
    /\ pc' = [pc EXCEPT ![t] = "idle"]
    /\ UNCHANGED <<op, fHelp, params, cs_vNodes, cs_vAddedNodes, cs_mapLocalHost, destVars,
                   addedVars, netVars, banVars>>

\* Lines 491-525.
getnetworkinfo_call(t, help, p) == info_call(t, "getnetworkinfo", help, p, "info_main")

\* Line 527: LOCK(cs_main).
getnetworkinfo_lock(t) == info_lock_main(t, "info_main", "info_count")

\* Line 536: "connections" is (int)vNodes.size(), read with cs_main held.
getnetworkinfo_count(t) ==
    /\ pc[t] = "info_count"
    /\ \E n \in VectorSize(t) : result' = [result EXCEPT ![t] = <<[connections |-> n]>>]
    /\ pc' = [pc EXCEPT ![t] = "info_local"]
    /\ UNCHANGED <<op, fHelp, params, outcome, lockVars, destVars, addedVars, netVars,
                   banVars>>

\* Line 541: LOCK(cs_mapLocalHost), with cs_main held.
getnetworkinfo_lock_local(t) ==
    /\ pc[t] = "info_local"
    /\ cs_mapLocalHost = NoThread
    /\ cs_mapLocalHost' = t
    /\ pc' = [pc EXCEPT ![t] = "info_return"]
    /\ UNCHANGED <<op, fHelp, params, outcome, result, cs_main, cs_vNodes, cs_vAddedNodes,
                   destVars, addedVars, netVars, banVars>>

\* Lines 542-551: the local addresses; cs_mapLocalHost ends with its block
\* and cs_main with the handler.
getnetworkinfo_return(t) ==
    /\ pc[t] = "info_return"
    /\ result' = [result EXCEPT ![t] =
                    <<[connections |-> result[t][1].connections,
                       localaddresses |-> mapLocalHost]>>]
    /\ outcome' = [outcome EXCEPT ![t] = "ok"]
    /\ cs_mapLocalHost' = Unlock(cs_mapLocalHost, t)
    /\ cs_main' = Unlock(cs_main, t)
    /\ pc' = [pc EXCEPT ![t] = "idle"]
    /\ UNCHANGED <<op, fHelp, params, cs_vNodes, cs_vAddedNodes, destVars, addedVars,
                   netVars, banVars>>

\* ---------------------------------------------------------- specification

Init ==
    /\ pc = [t \in Threads |-> "idle"]
    /\ op = [t \in Threads |-> "none"]
    /\ fHelp = [t \in Threads |-> FALSE]
    /\ params = [t \in Threads |-> <<>>]
    /\ outcome = [t \in Threads |-> "none"]
    /\ result = [t \in Threads |-> <<>>]
    /\ cs_main = NoThread /\ cs_vNodes = NoThread /\ cs_vAddedNodes = NoThread
    /\ cs_mapLocalHost = NoThread
    /\ addrBook = <<>>
    /\ fSelectedMatch = FALSE /\ fMatchStr = FALSE /\ fMatchTried = FALSE
    /\ fMatchAttempt = FALSE /\ fMatchConnect = FALSE /\ fUnknownCmd = FALSE
    /\ sMatchStr = <<>> /\ ret = <<>> /\ vecStats = <<>> /\ nTableSize = 0
    /\ i = 0 /\ k = 1 /\ fMatchFound = FALSE /\ nMatchSize = 0
    /\ vAddedNodes = <<>> /\ vNodes = <<>> /\ vOpenRequests = <<>>
    /\ it = [t \in Threads |-> 0]
    /\ fNetworkActive = TRUE
    /\ fActiveArg = [t \in Threads |-> FALSE]
    /\ netSeen = [t \in Threads |-> NotSeen]
    /\ nNetWrites = 0 /\ netLog = <<>>
    /\ setBanned = [x \in {} |-> x] /\ banDb = [x \in {} |-> x]
    /\ nTime = 0 /\ vPending = {} /\ nNextId = 0
    /\ bannedNode = [t \in Threads |-> NoNode]
    /\ banSeen = [t \in Threads |-> {}]
    /\ pNode = [t \in Threads |-> NoNode]

\* The address-book query, with the address manager running beside it.
NextDest ==
    \/ \E e \in DestUniverse, p \in 1..(MaxBook + 1) : addrman_Add(e, p)
    \/ \E p \in 1..MaxBook : addrman_Delete(p)
    \/ \E t \in DestThreads, help \in BOOLEAN, p \in DestParams : destination_call(t, help, p)
    \/ \E t \in DestThreads : destination_lock(t)
    \/ \E t \in DestThreads : destination_parse(t)
    \/ \E t \in DestThreads : destination_throw(t)
    \/ \E t \in DestThreads : destination_entry(t)
    \/ \E t \in DestThreads : destination_pass_end(t)
    \/ \E t \in DestThreads : destination_return(t)

SpecDest == Init /\ [][NextDest]_vars

\* The added-node list, with peers connecting and disconnecting beside it.
NextAdded ==
    \/ \E e \in Endpoints, inbound \in BOOLEAN : net_Connect(e, inbound)
    \/ \E p \in 1..MaxPeers : net_Disconnect(p)
    \/ \E t \in AddedThreads, help \in BOOLEAN, p \in AddnodeParams : addnode_call(t, help, p)
    \/ \E t \in AddedThreads : addnode_onetry(t)
    \/ \E t \in AddedThreads : addnode_lock(t)
    \/ \E t \in AddedThreads : addnode_search(t)
    \/ \E t \in AddedThreads : addnode_update(t)
    \/ \E t \in AddedThreads, help \in BOOLEAN, p \in GaniParams : getaddednodeinfo_call(t, help, p)
    \/ \E t \in AddedThreads : getaddednodeinfo_run(t)

SpecAdded == Init /\ [][NextAdded]_vars

\* The network-active toggle, called from two RPC workers.
NextSwitch ==
    \/ \E t \in Threads, help \in BOOLEAN, p \in SwitchParams : switchnetwork_call(t, help, p)
    \/ \E t \in Threads : switchnetwork_read(t)
    \/ \E t \in Threads : switchnetwork_set(t)
    \/ \E t \in Threads : switchnetwork_return(t)

SpecSwitch == Init /\ [][NextSwitch]_vars

\* What two workers call addnode and getaddednodeinfo with in SpecAddRace.
RaceEndpoints == {"10.0.0.1:9", "10.0.0.2:9"}

RaceParams == {<<e, c>> : e \in RaceEndpoints, c \in {"add", "remove"}}

\* The added-node list, changed and read by two RPC workers at once.
NextAddRace ==
    \/ \E t \in Threads, p \in RaceParams : addnode_call(t, FALSE, p)
    \/ \E t \in Threads : addnode_lock(t)
    \/ \E t \in Threads : addnode_search(t)
    \/ \E t \in Threads : addnode_update(t)
    \/ \E t \in Threads : getaddednodeinfo_call(t, FALSE, <<FALSE>>)
    \/ \E t \in Threads : getaddednodeinfo_run(t)

SpecAddRace == Init /\ [][NextAddRace]_vars

\* The RPC worker that runs the ban handlers in SpecBan.
BanThreads == {"t1"}

\* The addresses peers connect from in SpecBan: one that only the subnet of
\* BanTexts covers, and one that the address and the subnet both cover.
BanPeers == {0, 1}

\* The ban table, with the clock running and peers connecting beside it.
NextBan ==
    \/ clock_Tick
    \/ \E a \in BanPeers : net_CheckBanned(a)
    \/ \E a \in BanPeers : net_AddNode(a)
    \/ \E p \in 1..MaxConn : net_SocketHandler(p)
    \/ \E t \in BanThreads, help \in BOOLEAN, p \in SetbanParams : setban_call(t, help, p)
    \/ \E t \in BanThreads : setban_parse(t)
    \/ \E t \in BanThreads : setban_check(t)
    \/ \E t \in BanThreads : setban_ban(t)
    \/ \E t \in BanThreads : setban_find(t)
    \/ \E t \in BanThreads : setban_close(t)
    \/ \E t \in BanThreads : setban_unban(t)
    \/ \E t \in BanThreads : setban_dump(t)
    \/ \E t \in BanThreads, help \in BOOLEAN, p \in ZeroParams : listbanned_call(t, help, p)
    \/ \E t \in BanThreads : listbanned_run(t)
    \/ \E t \in BanThreads, help \in BOOLEAN, p \in ZeroParams : clearbanned_call(t, help, p)
    \/ \E t \in BanThreads : clearbanned_clear(t)
    \/ \E t \in BanThreads : clearbanned_dump(t)

SpecBan == Init /\ [][NextBan]_vars

\* What two workers call setban with in SpecBanRace.
BanRaceParams == {<<<<"0", "/", "1">>, c>> : c \in {"add", "remove"}}

\* The ban table, changed by two RPC workers at once.
NextBanRace ==
    \/ net_CheckBanned(0)
    \/ net_AddNode(0)
    \/ \E p \in 1..MaxConn : net_SocketHandler(p)
    \/ \E t \in Threads, p \in BanRaceParams : setban_call(t, FALSE, p)
    \/ \E t \in Threads : setban_parse(t)
    \/ \E t \in Threads : setban_check(t)
    \/ \E t \in Threads : setban_ban(t)
    \/ \E t \in Threads : setban_find(t)
    \/ \E t \in Threads : setban_close(t)
    \/ \E t \in Threads : setban_unban(t)
    \/ \E t \in Threads : setban_dump(t)

SpecBanRace == Init /\ [][NextBanRace]_vars

\* What one worker calls the handlers that can fail with in SpecFail.
FailAddnodeParams == {<<"10.0.0.1:9", "add">>, <<"10.0.0.1:9", "remove">>}

FailSetbanParams == {<<<<"1">>, "add">>, <<<<"1">>, "remove">>, <<<<"x">>, "add">>}

FailDestParams == {<<"good">>, <<"bad">>}

FailDest == CHOOSE e \in DestUniverse : e.fInTried

FailThreads == {"t1"}

\* The handlers that can fail, called one after another, with the address
\* manager and the connection manager running beside them.
NextFail ==
    \/ addrman_Add(FailDest, 1)
    \/ net_CheckBanned(1)
    \/ net_AddNode(1)
    \/ \E p \in 1..MaxConn : net_SocketHandler(p)
    \/ \E t \in FailThreads, p \in FailAddnodeParams : addnode_call(t, FALSE, p)
    \/ \E t \in FailThreads : addnode_lock(t)
    \/ \E t \in FailThreads : addnode_search(t)
    \/ \E t \in FailThreads : addnode_update(t)
    \/ \E t \in FailThreads : getaddednodeinfo_call(t, FALSE, <<TRUE, "10.0.0.1:9">>)
    \/ \E t \in FailThreads : getaddednodeinfo_run(t)
    \/ \E t \in FailThreads, p \in FailSetbanParams : setban_call(t, FALSE, p)
    \/ \E t \in FailThreads : setban_parse(t)
    \/ \E t \in FailThreads : setban_check(t)
    \/ \E t \in FailThreads : setban_ban(t)
    \/ \E t \in FailThreads : setban_find(t)
    \/ \E t \in FailThreads : setban_close(t)
    \/ \E t \in FailThreads : setban_unban(t)
    \/ \E t \in FailThreads : setban_dump(t)
    \/ \E t \in FailThreads : disconnectnode_call(t, FALSE, <<"10.0.0.1:9">>)
    \/ \E t \in FailThreads : disconnectnode_find(t)
    \/ \E t \in FailThreads : disconnectnode_close(t)
    \/ \E t \in FailThreads, p \in FailDestParams : destination_call(t, FALSE, p)
    \/ \E t \in FailThreads : destination_lock(t)
    \/ \E t \in FailThreads : destination_parse(t)
    \/ \E t \in FailThreads : destination_throw(t)
    \/ \E t \in FailThreads : destination_entry(t)
    \/ \E t \in FailThreads : destination_pass_end(t)
    \/ \E t \in FailThreads : destination_return(t)

SpecFail == Init /\ [][NextFail]_vars

\* The addresses peers connect from in SpecDisc.
DiscPeers == {0, 1}

\* disconnectnode called by two RPC workers, with peers connecting, closing
\* and being dropped beside them.
NextDisc ==
    \/ \E a \in DiscPeers : net_CheckBannedUpTo(a, MaxLive)
    \/ \E a \in DiscPeers : net_AddNode(a)
    \/ \E p \in 1..MaxLive : net_PeerCloses(p)
    \/ \E p \in 1..MaxLive : net_SocketHandler(p)
    \/ \E t \in Threads, help \in BOOLEAN, p \in DisconnectParams : disconnectnode_call(t, help, p)
    \/ \E t \in Threads : disconnectnode_find(t)
    \/ \E t \in Threads : disconnectnode_close(t)

SpecDisc == Init /\ [][NextDisc]_vars

\* What one worker calls setban with in SpecBanLoop: an address, and a
\* subnet that holds that address and one more.
BanLoopParams == {<<<<"1">>, "add">>, <<<<"0", "/", "1">>, "add">>}

\* The steps of setban after the call has arrived.
setban_steps(t) ==
    \/ setban_parse(t)
    \/ setban_check(t)
    \/ setban_ban(t)
    \/ setban_find(t)
    \/ setban_close(t)
    \/ setban_dump(t)

\* One pass of the socket handler over the nodes to drop.
net_SocketHandlerPass == \E p \in 1..MaxLive : net_SocketHandler(p)

\* setban add, with up to MaxLive peers connecting and the socket handler
\* dropping the closed ones.
NextBanLoop ==
    \/ \E a \in BanPeers : net_CheckBannedUpTo(a, MaxLive)
    \/ \E a \in BanPeers : net_AddNode(a)
    \/ net_SocketHandlerPass
    \/ \E t \in BanThreads, p \in BanLoopParams : setban_call(t, FALSE, p)
    \/ \E t \in BanThreads : setban_steps(t)

\* The RPC worker keeps running a call it has received, and the socket
\* handler thread keeps running; peers connect or not as they like.
FairBanLoop ==
    /\ \A t \in BanThreads : WF_vars(setban_steps(t))
    /\ WF_vars(net_SocketHandlerPass)

SpecBanLoop == Init /\ [][NextBanLoop]_vars /\ FairBanLoop

\* The steps of the handlers that take locks, after the call has arrived.
lock_steps(t) ==
    \/ getconnectioncount_lock(t)
    \/ getconnectioncount_read(t)
    \/ ping_lock(t)
    \/ ping_run(t)
    \/ getpeerinfo_lock(t)
    \/ getpeerinfo_lock_nodes(t)
    \/ getpeerinfo_copy(t)
    \/ getpeerinfo_return(t)
    \/ getnetworkinfo_lock(t)
    \/ getnetworkinfo_count(t)
    \/ getnetworkinfo_lock_local(t)
    \/ getnetworkinfo_return(t)
    \/ destination_lock(t)
    \/ destination_parse(t)
    \/ destination_throw(t)
    \/ addnode_lock(t)
    \/ addnode_search(t)
    \/ addnode_update(t)

\* The handlers that take locks, called by two RPC workers: both call
\* getconnectioncount and getnetworkinfo, the first also ping and
\* getpeerinfo, the second also destination (with a filter it rejects under
\* its locks) and addnode (with an endpoint it rejects under its lock the
\* second time).  The connection manager changes the live peers under
\* cs_vNodes and uses cs_mapLocalHost beside them.
NextLocks ==
    \/ net_LockNodes
    \/ net_PushBack(1)
    \/ \E p \in 1..MaxLive : net_Erase(p)
    \/ net_UnlockNodes
    \/ net_LockLocal
    \/ net_UnlockLocal
    \/ \E t \in Threads : getconnectioncount_call(t, FALSE, <<>>)
    \/ ping_call("t1", FALSE, <<>>)
    \/ getpeerinfo_call("t1", FALSE, <<>>)
    \/ \E t \in Threads : getnetworkinfo_call(t, FALSE, <<>>)
    \/ destination_call("t2", FALSE, <<"bad">>)
    \/ addnode_call("t2", FALSE, <<"10.0.0.1:9", "add">>)
    \/ \E t \in Threads : lock_steps(t)

\* An RPC worker keeps running a call it has received and gets a lock that
\* is free again and again; the connection manager gives its locks back.
FairLocks ==
    /\ \A t \in Threads : SF_vars(lock_steps(t))
    /\ WF_vars(net_UnlockNodes)
    /\ WF_vars(net_UnlockLocal)

SpecLocks == Init /\ [][NextLocks]_vars /\ FairLocks

\* Every handler of the module together.
Next ==
    \/ NextDest \/ NextAdded \/ NextSwitch \/ NextBan \/ NextAddRace \/ NextBanRace
    \/ NextFail \/ NextDisc \/ NextBanLoop \/ NextLocks

Spec == Init /\ [][Next]_vars

\* ------------------------------------------- properties of destination

\* "S occurs in s": some contiguous part of s equals S.
Occurs(S, s) == \E a \in 1..(Len(s) + 1), b \in 0..Len(s) : SubSeq(s, a, b) = S

\* The filter an argument list p selects, as a predicate on an entry.
Satisfies(e, p) ==
    IF Len(p) = 0 THEN TRUE
    ELSE IF p[1] = "match"
         THEN Occurs(p[2], e.sAddress) \/ Occurs(p[2], e.sSource) \/ Occurs(p[2], e.sBase64)
    ELSE IF p[1] = "good" THEN e.fInTried
    ELSE IF p[1] = "attempt" THEN e.nAttempts > 0
    ELSE e.nSuccessTime > 0

\* The argument list is one of the accepted filters.
AcceptedFilter(p) ==
    \/ Len(p) = 0
    \/ Len(p) = 2 /\ p[1] = "match"
    \/ Len(p) \in 1..2 /\ p[1] \in {"good", "attempt", "connect"}

\* Thread t has finished a call of destination that was not a help request.
DestFinished(t) ==
    op[t] = "destination" /\ pc[t] = "idle" /\ outcome[t] # "none" /\ ~fHelp[t]

\* r is an array of a {tablesize, matchsize} object and then match objects,
\* and matchsize is the number of match objects.
SizesThenMatches(r) ==
    /\ Len(r) >= 1
    /\ DOMAIN r[1] = {"tablesize", "matchsize"}
    /\ \A x \in 2..Len(r) : "address" \in DOMAIN r[x]
    /\ r[1].matchsize = Len(r) - 1

\* C1: for every address-book state and every accepted filter, the array
\* destination returns starts with the {tablesize, matchsize} object and its
\* matchsize is the number of match objects after it, also when the address
\* manager changes the address book while the call runs.
C1_MatchsizeIsEmittedCount ==
    \A t \in DestThreads :
        /\ pc[t] = "dest_return" => SizesThenMatches(ret)
        /\ (DestFinished(t) /\ AcceptedFilter(params[t]))
              => outcome[t] = "ok" /\ Len(result[t]) = 1 /\ SizesThenMatches(result[t][1])

\* A call with a filter is about to return some but not all entries, and the
\* address book has changed since the call exported it.
C1_Witness ==
    \E t \in DestThreads :
        /\ pc[t] = "dest_return" /\ fSelectedMatch
        /\ vecStats # addrBook
        /\ Len(ret) = 2 /\ Len(vecStats) = 2

\* C2: destination emits a match object for an entry exactly when the entry
\* satisfies the filter (none: every entry; match S: S occurs in address,
\* source or base64; good: in the tried table; attempt: attempts > 0;
\* connect: last success > 0), in the order of the exported sequence, and a
\* match on one entry does not carry over to the next.
C2_EmitsExactlyTheMatches ==
    \A t \in DestThreads :
        pc[t] = "dest_return" =>
            LET Test(e) == Satisfies(e, params[t])
                want == SelectSeq(vecStats, Test)
            IN  /\ Len(ret) = Len(want) + 1
                /\ \A x \in 1..Len(want) :
                      /\ ret[x + 1].address = want[x].sAddress
                      /\ ret[x + 1].source = want[x].sSource
                      /\ ret[x + 1].good = want[x].fInTried
                      /\ ret[x + 1].attempt = want[x].nAttempts
                      /\ ret[x + 1].lasttry = want[x].nLastTry
                      /\ ret[x + 1].connect = want[x].nSuccessTime

\* A call is about to return where the first exported entry matched the
\* filter and the second did not.
C2_Witness ==
    \E t \in DestThreads :
        /\ pc[t] = "dest_return" /\ fSelectedMatch
        /\ Len(vecStats) = 2
        /\ Satisfies(vecStats[1], params[t]) /\ ~Satisfies(vecStats[2], params[t])
        /\ Len(ret) = 2

\* C3: the tablesize destination reports is the number of entries of the
\* address book it exported, for every accepted filter and whatever the
\* number of matches.
C3_TablesizeIsEntryCount ==
    \A t \in DestThreads :
        (pc[t] = "dest_return" \/ (pc[t] = "dest_loop" /\ i = 1)) =>
            /\ Len(ret) >= 1
            /\ ret[1].tablesize = Len(vecStats)

\* A call with a filter is about to return fewer matches than the address
\* book has entries.
C3_Witness ==
    \E t \in DestThreads :
        /\ pc[t] = "dest_return" /\ fSelectedMatch
        /\ Len(vecStats) = 2 /\ ret[1].matchsize < 2 /\ ret[1].tablesize = 2

\* C4: destination called with a first argument other than match, good,
\* attempt or connect, or with match and no second argument, fails with
\* RPC_INVALID_PARAMS and returns no array; it never runs the query.
C4_UnknownFilterIsInvalidParams ==
    \A t \in DestThreads :
        (op[t] = "destination" /\ ~fHelp[t] /\ Len(params[t]) \in 1..2
            /\ ~AcceptedFilter(params[t]))
        => /\ pc[t] \notin {"dest_loop", "dest_return"}
           /\ pc[t] = "idle" => outcome[t] = "RPC_INVALID_PARAMS" /\ result[t] = <<>>

\* A call with an unknown keyword has failed while the address book held
\* entries.
C4_Witness ==
    \E t \in DestThreads :
        /\ DestFinished(t) /\ params[t] = <<"bad">>
        /\ outcome[t] = "RPC_INVALID_PARAMS" /\ addrBook # <<>>

\* C5: a match object carries the base64 field exactly when the call had a
\* filter argument; with no argument no emitted object has it.
C5_Base64OnlyWithFilter ==
    \A t \in DestThreads :
        (DestFinished(t) /\ outcome[t] = "ok") =>
            \A x \in 2..Len(result[t][1]) :
                ("base64" \in DOMAIN result[t][1][x]) <=> (Len(params[t]) > 0)

\* A call without arguments has returned a match object.
C5_Witness ==
    \E t \in DestThreads :
        /\ DestFinished(t) /\ outcome[t] = "ok" /\ params[t] = <<>>
        /\ Len(result[t][1]) >= 2

\* ---------------------------------- properties of the added-node handlers

NoDuplicates(v) == \A x, y \in DOMAIN v : v[x] = v[y] => x = y

\* Thread t leaves the critical section of addnode in this step.
AddnodeUpdates(t) == pc[t] = "addnode_it" /\ pc'[t] = "idle"

\* C6: addnode add of an endpoint already in the added-node list fails with
\* RPC_CLIENT_NODE_ALREADY_ADDED and addnode remove of an endpoint not in it
\* fails with RPC_CLIENT_NODE_NOT_ADDED; a successful add leaves the
\* endpoint in the list and a successful remove leaves it out, so the second
\* of two adds, and of two removes, fails.
C6_AddTwiceRemoveTwiceFail ==
    [][\A t \in AddedThreads :
          AddnodeUpdates(t) =>
              LET E == params[t][1]
                  cmd == params[t][2]
                  member == E \in Range(vAddedNodes)
              IN  /\ (cmd = "add" /\ member) =>
                        /\ outcome'[t] = "RPC_CLIENT_NODE_ALREADY_ADDED"
                        /\ vAddedNodes' = vAddedNodes
                  /\ (cmd = "remove" /\ ~member) =>
                        /\ outcome'[t] = "RPC_CLIENT_NODE_NOT_ADDED"
                        /\ vAddedNodes' = vAddedNodes
                  /\ (cmd = "add" /\ ~member) =>
                        outcome'[t] = "ok" /\ E \in Range(vAddedNodes')
                  /\ (cmd = "remove" /\ member) =>
                        outcome'[t] = "ok" /\ E \notin Range(vAddedNodes')]_vars

\* An add of a member has failed and the list still holds the endpoint.
C6_Witness ==
    \E t \in AddedThreads :
        /\ op[t] = "addnode" /\ pc[t] = "idle"
        /\ outcome[t] = "RPC_CLIENT_NODE_ALREADY_ADDED"
        /\ params[t][2] = "add" /\ params[t][1] \in Range(vAddedNodes)

\* C7: the added-node list never holds an endpoint twice; a step changes it
\* only by appending an endpoint that was not in it or by taking one element
\* out with the others keeping their order, so the members stand in the
\* order of their latest successful add.
C7_NoDuplicatesInsertionOrder ==
    /\ []NoDuplicates(vAddedNodes)
    /\ [][\/ vAddedNodes' = vAddedNodes
          \/ \E e \in Endpoints \ Range(vAddedNodes) : vAddedNodes' = Append(vAddedNodes, e)
          \/ \E x \in DOMAIN vAddedNodes : vAddedNodes' = RemoveAt(vAddedNodes, x)]_vars

\* The first of three members has just been removed: two members remain.
C7_Witness ==
    \E t \in AddedThreads :
        /\ op[t] = "addnode" /\ pc[t] = "idle" /\ outcome[t] = "ok"
        /\ params[t][2] = "remove"
        /\ Len(vAddedNodes) = 2
        /\ vAddedNodes[1] # params[t][1] /\ vAddedNodes[2] # params[t][1]

\* C8: addnode onetry leaves the added-node list as it is and asks the
\* connection manager for exactly one connection to the endpoint, member or
\* not; the list changes only in an add or remove, and a connection is asked
\* for only by onetry.
C8_OnetryLeavesListAlone ==
    [][/\ \A t \in AddedThreads :
             (pc[t] = "addnode_onetry" /\ pc'[t] = "idle") =>
                 /\ vAddedNodes' = vAddedNodes
                 /\ vOpenRequests' = Append(vOpenRequests, params[t][1])
                 /\ outcome'[t] = "ok"
       /\ vAddedNodes' # vAddedNodes =>
             \E t \in AddedThreads :
                 AddnodeUpdates(t) /\ params[t][2] \in {"add", "remove"}
       /\ vOpenRequests' # vOpenRequests =>
             \E t \in AddedThreads : pc[t] = "addnode_onetry" /\ pc'[t] = "idle"]_vars

\* An onetry of a member of the list has returned.
C8_Witness ==
    \E t \in AddedThreads :
        /\ op[t] = "addnode" /\ pc[t] = "idle" /\ outcome[t] = "ok"
        /\ params[t][2] = "onetry"
        /\ params[t][1] \in Range(vAddedNodes)
        /\ vOpenRequests = <<params[t][1]>>

\* C9: getaddednodeinfo with a node argument that is not in the added-node
\* list fails with RPC_CLIENT_NODE_NOT_ADDED; with one that is, it returns
\* exactly that entry; with no node argument it returns one entry per
\* member, in order, connected or not.
C9_AddedNodeInfoEntries ==
    [][\A t \in AddedThreads :
          (pc[t] = "gani_run" /\ pc'[t] = "idle") =>
              LET p == params[t]
                  Connected(n) == \E y \in DOMAIN vNodes : vNodes[y].addrName = n
              IN  IF Len(p) = 2
                  THEN IF p[2] \notin Range(vAddedNodes)
                       THEN /\ outcome'[t] = "RPC_CLIENT_NODE_NOT_ADDED"
                            /\ result'[t] = <<>>
                       ELSE /\ outcome'[t] = "ok"
                            /\ Len(result'[t][1]) = 1
                            /\ result'[t][1][1].addednode = p[2]
                            /\ result'[t][1][1].connected = Connected(p[2])
                  ELSE /\ outcome'[t] = "ok"
                       /\ Len(result'[t][1]) = Len(vAddedNodes)
                       /\ \A x \in DOMAIN vAddedNodes :
                             /\ result'[t][1][x].addednode = vAddedNodes[x]
                             /\ result'[t][1][x].connected = Connected(vAddedNodes[x])]_vars

\* A query for the second of two members has returned one entry while the
\* first member is connected and the second is not.
C9_Witness ==
    \E t \in AddedThreads :
        /\ op[t] = "getaddednodeinfo" /\ pc[t] = "idle" /\ outcome[t] = "ok"
        /\ Len(params[t]) = 2
        /\ Len(vAddedNodes) = 2 /\ vAddedNodes[2] = params[t][2]
        /\ Len(vNodes) = 1 /\ vNodes[1].addrName = vAddedNodes[1]
        /\ Len(result[t][1]) = 1 /\ ~result[t][1][1].connected

\* ------------------------------------------------ properties of switchnetwork

\* No other call wrote the flag between this call's read and its return.
Alone(c) == c.w1 = c.w0 + 1

\* C10: switchnetwork writes the negation of the flag it read and, with no
\* other writer in between, returns that new value; of two calls in
\* succession with no other writer in between, the second writes back and
\* returns the value the flag had before the first.
C10_ToggleTwiceRestores ==
    /\ \A x \in DOMAIN netLog :
          /\ netLog[x].wrote = ~netLog[x].read
          /\ Alone(netLog[x]) => netLog[x].ret = ~netLog[x].read
    /\ \A x, y \in DOMAIN netLog :
          (Alone(netLog[x]) /\ Alone(netLog[y]) /\ netLog[y].w0 = netLog[x].w1) =>
              /\ netLog[y].wrote = netLog[x].read
              /\ netLog[y].ret = netLog[x].read

\* Two calls in succession, with no other writer, have returned and the flag
\* is back at the value the first one read.
C10_Witness ==
    /\ Len(netLog) = 2
    /\ Alone(netLog[1]) /\ Alone(netLog[2]) /\ netLog[2].w0 = netLog[1].w1
    /\ netLog[1].ret = FALSE /\ netLog[2].ret = TRUE
    /\ fNetworkActive = netLog[1].read

\* --------------------------------------------- properties of the ban handlers

\* The outcomes that are failures (the usage text is not one of them).
Failures == {"RPC_CLIENT_NODE_ALREADY_ADDED", "RPC_CLIENT_NODE_NOT_ADDED",
             "RPC_CLIENT_NODE_NOT_CONNECTED", "RPC_INVALID_PARAMS", "RPC_MISC_ERROR"}

\* The texts that are an address, or an address, a slash and a prefix length.
ValidBanText(s) ==
    \/ s \in {<<Digits[a + 1]>> : a \in NetAddrs}
    \/ s \in {<<Digits[a + 1], "/", Digits[n + 1]>> : a \in NetAddrs, n \in 0..2}

\* Thread t takes the step that leaves position at.
Leaves(t, at) == pc[t] = at /\ pc'[t] # at

\* The key has an entry that has not expired.
BannedNow(subNet) == subNet \in DOMAIN setBanned /\ nTime < setBanned[subNet].nBanUntil

\* C11: setban add fails when its first argument is neither an address nor
\* a subnet, and fails with RPC_CLIENT_NODE_ALREADY_ADDED when the key it
\* names is banned already; either way the ban table and the live peers stay
\* as they are.
C11_SetbanAddRejects ==
    [][\A t \in Threads :
          /\ (/\ Leaves(t, "setban_parse")
              /\ SetbanCommand(params[t]) = "add"
              /\ ~ValidBanText(params[t][1]))
                => /\ pc'[t] = "idle" /\ outcome'[t] \in Failures
                   /\ setBanned' = setBanned /\ vNodes' = vNodes
          /\ (/\ Leaves(t, "setban_check")
              /\ BannedNow(SetbanKey(params[t])))
                => /\ pc'[t] = "idle" /\ outcome'[t] = "RPC_CLIENT_NODE_ALREADY_ADDED"
                   /\ setBanned' = setBanned /\ vNodes' = vNodes]_vars

\* A setban add of a banned key has failed, and a live peer that the key
\* covers is still connected.
C11_Witness ==
    \E t \in Threads :
        /\ pc[t] = "idle" /\ op[t] = "setban" /\ ~fHelp[t]
        /\ outcome[t] = "RPC_CLIENT_NODE_ALREADY_ADDED"
        /\ ValidBanText(params[t][1])
        /\ BannedNow(SetbanKey(params[t]))
        /\ \E x \in DOMAIN vNodes :
              Match(SetbanKey(params[t]), vNodes[x].addr) /\ ~vNodes[x].fDisconnect

\* The ban table without the entry of one key.
WithoutKey(subNet) == [x \in DOMAIN setBanned \ {subNet} |-> setBanned[x]]

\* C12: setban remove of a key that has no entry fails with
\* RPC_CLIENT_NODE_NOT_ADDED and leaves the table as it is; setban remove of
\* a key that has an entry removes that entry and no other.
C12_SetbanRemove ==
    [][\A t \in Threads :
          Leaves(t, "setban_unban") =>
              IF SetbanKey(params[t]) \notin DOMAIN setBanned
              THEN /\ pc'[t] = "idle" /\ outcome'[t] = "RPC_CLIENT_NODE_NOT_ADDED"
                   /\ setBanned' = setBanned
              ELSE /\ outcome'[t] \notin Failures
                   /\ setBanned' = WithoutKey(SetbanKey(params[t]))]_vars

\* listbanned, run on that ban map, shows an entry whose address field reads
\* back as the subnet.
Listed(subNet, banMap) ==
    \E x \in DOMAIN ListBanned(banMap) : ParseSubNet(ListBanned(banMap)[x].address) = subNet

\* Thread t returns from a successful setban with that command.
SetbanReturns(t, strCommand) ==
    Leaves(t, "setban_dump") /\ SetbanCommand(params[t]) = strCommand

\* C13: when setban add of a subnet K returns, listbanned shows an entry
\* whose address is K; when setban remove of K returns, listbanned shows no
\* entry for K; and a setban add of K that finds no entry for K is accepted.
\* listbanned returns the list of the table as it is when it runs.
C13_AddListRemoveAdd ==
    [][\A t \in Threads :
          /\ (SetbanReturns(t, "add") /\ SetbanIsSubnet(params[t]))
                => outcome'[t] = "ok" /\ Listed(SetbanKey(params[t]), setBanned')
          /\ (SetbanReturns(t, "remove") /\ SetbanIsSubnet(params[t]))
                => outcome'[t] = "ok" /\ ~Listed(SetbanKey(params[t]), setBanned')
          /\ (/\ Leaves(t, "setban_check")
              /\ SetbanIsSubnet(params[t])
              /\ SetbanKey(params[t]) \notin DOMAIN setBanned)
                => pc'[t] = "setban_ban"
          /\ Leaves(t, "listbanned_run")
                => outcome'[t] = "ok" /\ result'[t] = <<ListBanned(setBanned)>>]_vars

\* A setban add of a subnet written with host bits set has returned, and
\* listbanned has then shown the subnet, in its normal form, beside another
\* entry.
C13_Witness ==
    \E t \in Threads :
        /\ pc[t] = "idle" /\ op[t] = "listbanned" /\ outcome[t] = "ok"
        /\ Len(result[t][1]) = 2
        /\ result[t][1] = ListBanned(setBanned)
        /\ \E x \in DOMAIN result[t][1] : result[t][1][x].address = <<"0", "/", "1">>
        /\ banDb = setBanned

\* The positions at which a handler calls DumpBanlist and returns.
DumpPcs == {"setban_dump", "clearbanned_dump"}

\* The positions of setban add between CNode::Ban and DumpBanlist.
RescanPcs == {"setban_find", "setban_close"}

\* C14: setban add, setban remove and clearbanned change the ban table and
\* then, before they return success, write it to the ban database, so the
\* database equals the table when such a call returns success; the database
\* is written by nothing else, so a call that fails does not write it.
C14_DumpAfterMutation ==
    [][/\ \A t \in Threads :
            /\ (pc[t] \in DumpPcs /\ pc'[t] # pc[t])
                  => pc'[t] = "idle" /\ outcome'[t] = "ok" /\ banDb' = setBanned'
            /\ (pc'[t] # pc[t] /\ setBanned' # setBanned)
                  => pc'[t] \in DumpPcs \cup RescanPcs /\ outcome'[t] \notin Failures
            /\ (pc[t] \in RescanPcs /\ pc'[t] # pc[t])
                  => pc'[t] \in DumpPcs \cup RescanPcs /\ outcome'[t] \notin Failures
            /\ (/\ pc[t] # "idle" /\ pc'[t] = "idle"
                /\ op[t] \in {"setban", "clearbanned"}
                /\ outcome'[t] = "ok")
                  => pc[t] \in DumpPcs
       /\ banDb' # banDb
            => \E t \in Threads :
                  pc[t] \in DumpPcs /\ pc'[t] = "idle" /\ outcome'[t] = "ok"]_vars

\* A setban remove has returned success: the entry is gone from the table
\* and from the database, and another entry is in both.
C14_Witness ==
    \E t \in Threads :
        /\ pc[t] = "idle" /\ op[t] = "setban" /\ outcome[t] = "ok"
        /\ SetbanCommand(params[t]) = "remove"
        /\ SetbanKey(params[t]) \notin DOMAIN banDb
        /\ DOMAIN banDb # {}
        /\ banDb = setBanned

\* Some node of that live set is at an address the subnet covers.
Covers(subNet, nodes) == \E x \in DOMAIN nodes : Match(subNet, nodes[x].addr)

\* Thread t has returned from a successful setban add.
SetbanAdded(t) ==
    /\ pc[t] = "idle" /\ op[t] = "setban" /\ outcome[t] = "ok"
    /\ SetbanCommand(params[t]) = "add"

\* C15 as stated: when setban add returns success, no live peer is at the
\* banned address or inside the banned subnet.
C15_NoMatchingPeerAtReturn ==
    [][\A t \in Threads :
          SetbanReturns(t, "add") => ~Covers(SetbanKey(params[t]), vNodes')]_vars

\* C15, amended: setban add leaves its disconnect loop only when no live
\* peer is at the banned address or inside the banned subnet, and once it
\* has returned success every peer that was live and covered when the ban
\* was inserted is out of the live set for good; a peer whose connection was
\* being set up when the ban was inserted may be live when the call returns.
C15_MatchedPeersAreGone ==
    /\ [](\A t \in Threads :
             (pc[t] = "setban_dump" \/ SetbanAdded(t)) => banSeen[t] \cap NodeIds = {})
    /\ [][\A t \in Threads :
             (Leaves(t, "setban_find") /\ pc'[t] = "setban_dump")
                => ~Covers(SetbanKey(params[t]), vNodes)]_vars

\* A setban add of a subnet has returned success; a peer inside the subnet
\* was live when the ban was inserted and is live no longer.
C15_Witness ==
    \E t \in Threads :
        /\ SetbanAdded(t)
        /\ SetbanIsSubnet(params[t])
        /\ banSeen[t] # {}
        /\ banSeen[t] \cap NodeIds = {}

\* C16: every entry of the ban table has its ban-until after its creation
\* time, whatever bantime and absolute arguments the setban calls had.
C16_BanUntilAfterCreation ==
    \A subNet \in DOMAIN setBanned :
        setBanned[subNet].nBanUntil > setBanned[subNet].nCreateTime

\* The positions of addnode inside the hold of cs_vAddedNodes.
AddnodeCs == {"addnode_cs", "addnode_it"}

\* No two rows of a getaddednodeinfo result name the same node.
NoRepeatedRows(rows) == \A x, y \in DOMAIN rows : rows[x].addednode = rows[y].addednode => x = y

\* C18: addnode tests the membership of its endpoint and inserts or erases
\* it in one hold of cs_vAddedNodes.  So each add succeeds exactly when the
\* endpoint is not in the list at that moment and each remove exactly when
\* it is: of two concurrent adds of an absent endpoint, and of two concurrent
\* removes of a present one, the first to take the lock succeeds and the
\* other fails, unless the list is changed again between them.  The list
\* never holds an endpoint twice, and no getaddednodeinfo shows one twice.
C18_OneWinner ==
    /\ [](/\ NoDuplicates(vAddedNodes)
          /\ \A t \in Threads :
                /\ pc[t] \in AddnodeCs => cs_vAddedNodes = t
                /\ pc[t] = "addnode_it" => it[t] = FindAdded(params[t][1])
                /\ (pc[t] = "idle" /\ op[t] = "getaddednodeinfo" /\ outcome[t] = "ok")
                      => NoRepeatedRows(result[t][1]))
    /\ [][/\ \A t \in Threads :
                AddnodeUpdates(t) =>
                    LET E == params[t][1]
                        cmd == params[t][2]
                        member == E \in Range(vAddedNodes)
                    IN  /\ cmd = "add" =>
                              /\ outcome'[t] = IF member THEN "RPC_CLIENT_NODE_ALREADY_ADDED" ELSE "ok"
                              /\ E \in Range(vAddedNodes')
                        /\ cmd = "remove" =>
                              /\ outcome'[t] = IF member THEN "ok" ELSE "RPC_CLIENT_NODE_NOT_ADDED"
                              /\ E \notin Range(vAddedNodes')
          /\ vAddedNodes' # vAddedNodes =>
                \E t \in Threads : AddnodeUpdates(t) /\ cs_vAddedNodes = t]_vars

\* Two adds of the same endpoint were running at once on a list without it;
\* one has succeeded, and the other, which waited for the lock, has found
\* the endpoint in the list and is about to fail.
C18_Witness ==
    \E t, u \in Threads :
        /\ t # u
        /\ op[t] = "addnode" /\ pc[t] = "idle" /\ outcome[t] = "ok"
        /\ op[u] = "addnode" /\ pc[u] = "addnode_it"
        /\ params[t] = params[u] /\ params[u][2] = "add"
        /\ it[u] = 1 /\ vAddedNodes = <<params[u][1]>>

\* ------------------------------------------------- properties of failing calls

\* The positions a handler reaches only after it has changed the ban table
\* or the live peers.
NoFailPcs == RescanPcs \cup DumpPcs

\* The added-node list, the ban table and the live peers.
RegistrySets == <<vAddedNodes, setBanned, vNodes>>

\* C17: a call of addnode, setban, getaddednodeinfo, disconnectnode or
\* destination that fails has changed none of the added-node list, the ban
\* table and the live peers: the step that fails changes none of them, and
\* once a handler has changed one of them it is at a position from which it
\* does not fail.
C17_FailureBeforeMutation ==
    [][\A t \in Threads :
          pc'[t] # pc[t] =>
              /\ outcome'[t] \in Failures
                    => /\ RegistrySets' = RegistrySets
                       /\ pc[t] \notin NoFailPcs
                       /\ op[t] \in {"addnode", "setban", "getaddednodeinfo",
                                     "disconnectnode", "destination"}
              /\ RegistrySets' # RegistrySets => pc'[t] \in NoFailPcs \cup {"idle"}
              /\ pc[t] \in NoFailPcs => pc'[t] \in NoFailPcs \cup {"idle"}]_vars

\* A setban add has failed while the added-node list, the ban table and the
\* live peers all hold something.
C17_Witness ==
    \E t \in Threads :
        /\ pc[t] = "idle" /\ op[t] = "setban"
        /\ outcome[t] = "RPC_CLIENT_NODE_ALREADY_ADDED"
        /\ vAddedNodes # <<>> /\ DOMAIN setBanned # {} /\ vNodes # <<>>

\* ------------------------------------------- properties of concurrent setban

\* C19: when setban add inserts its entry for a key, the key is not banned:
\* no other thread has inserted the key since this call's already-banned
\* test, so of two concurrent setban add of one key at most one succeeds and
\* the other fails with RPC_CLIENT_NODE_ALREADY_ADDED.
C19_CheckAndInsertTogether ==
    [][\A t \in Threads :
          Leaves(t, "setban_ban") => ~BannedNow(SetbanKey(params[t]))]_vars

\* ------------------------------------------------ properties of the usage text

\* The argument counts each operation accepts, as its usage text gives them.
ArgCounts(o) ==
    CASE o = "destination" -> 0..2
      [] o = "addnode" -> {2}
      [] o = "disconnectnode" -> {1}
      [] o = "getaddednodeinfo" -> 1..2
      [] o = "setban" -> 2..4
      [] OTHER -> {0}

\* The command keywords of the operations that take one.
Keywords(o) ==
    CASE o = "addnode" -> {"onetry", "add", "remove"}
      [] o = "setban" -> {"add", "remove"}
      [] OTHER -> {}

\* The call thread t has received is one for the usage text.
UsageCall(t) ==
    /\ op[t] # "none"
    /\ \/ fHelp[t]
       \/ Len(params[t]) \notin ArgCounts(op[t])
       \/ Keywords(op[t]) # {} /\ Len(params[t]) >= 2 /\ params[t][2] \notin Keywords(op[t])

\* C20: an operation called with the help flag, with an argument count
\* outside its range or (addnode, setban) with an unknown command keyword
\* ends in the usage text without executing: the thread stays idle, and the
\* step in which the call arrives takes no lock and changes none of the live
\* peers, the added-node list, the ban table, the ban database and the
\* network-active flag.
C20_UsageWithoutExecuting ==
    /\ [](\A t \in Threads : UsageCall(t) => pc[t] = "idle" /\ outcome[t] = "usage")
    /\ [][\A t \in Threads :
             (UsageCall(t)' /\ <<op[t], fHelp[t], params[t], outcome[t]>>' #
                               <<op[t], fHelp[t], params[t], outcome[t]>>)
                => UNCHANGED <<lockVars, vNodes, vAddedNodes, setBanned, banDb,
                               fNetworkActive>>]_vars

\* ------------------------------------------- properties of disconnectnode

\* The positions of the live nodes with that address name.
NamedAt(strNode) == {x \in DOMAIN vNodes : vNodes[x].addrName = strNode}

\* C21: disconnectnode fails with RPC_CLIENT_NODE_NOT_CONNECTED exactly when
\* no live peer has the given address name, and that step leaves the live
\* peers alone; otherwise it goes on with a peer of that name, and its last
\* step sets that peer's fDisconnect and changes no other peer.
C21_DisconnectNode ==
    /\ [](\A t \in Threads :
             pc[t] = "disconnect_close" =>
                 \A x \in DOMAIN vNodes :
                     vNodes[x].id = pNode[t] => vNodes[x].addrName = params[t][1])
    /\ [][\A t \in Threads :
             /\ Leaves(t, "disconnect_find") =>
                    IF NamedAt(params[t][1]) = {}
                    THEN /\ outcome'[t] = "RPC_CLIENT_NODE_NOT_CONNECTED"
                         /\ pc'[t] = "idle"
                         /\ vNodes' = vNodes
                    ELSE /\ outcome'[t] \notin Failures
                         /\ pc'[t] = "disconnect_close"
                         /\ pNode'[t] = vNodes[Min(NamedAt(params[t][1]))].id
                         /\ vNodes' = vNodes
             /\ Leaves(t, "disconnect_close") =>
                    /\ outcome'[t] = "ok"
                    /\ DOMAIN vNodes' = DOMAIN vNodes
                    /\ \A x \in DOMAIN vNodes :
                           IF vNodes[x].id = pNode[t]
                           THEN vNodes'[x] = [vNodes[x] EXCEPT !.fDisconnect = TRUE]
                           ELSE vNodes'[x] = vNodes[x]]_vars

\* A disconnectnode has returned with two peers live: the one it named is
\* closed and the other is not; and another call has failed.
C21_Witness ==
    /\ Len(vNodes) = 2
    /\ pc["t1"] = "idle" /\ op["t1"] = "disconnectnode" /\ outcome["t1"] = "ok"
    /\ \E x, y \in DOMAIN vNodes :
           /\ vNodes[x].addrName = params["t1"][1] /\ vNodes[x].fDisconnect
           /\ vNodes[y].addrName # params["t1"][1] /\ ~vNodes[y].fDisconnect
    /\ pc["t2"] = "idle" /\ op["t2"] = "disconnectnode"
    /\ outcome["t2"] = "RPC_CLIENT_NODE_NOT_CONNECTED"

\* ----------------------------------------------- properties of clearbanned

\* The ban table has no entry.
NoBans == DOMAIN setBanned = {}

\* C22: clearbanned leaves the ban table without any entry, expired or not;
\* an empty table gets an entry only by setban add's insertion, so until
\* then listbanned returns the empty array and setban add of any valid key
\* passes its already-banned test and inserts the key.
C22_ClearbannedEmpties ==
    [][/\ (NoBans /\ ~NoBans') => \E t \in Threads : Leaves(t, "setban_ban")
       /\ \A t \in Threads :
             /\ Leaves(t, "clearbanned_clear") => NoBans'
             /\ (Leaves(t, "listbanned_run") /\ NoBans) =>
                    outcome'[t] = "ok" /\ result'[t] = << <<>> >>
             /\ (Leaves(t, "setban_check") /\ NoBans) =>
                    outcome'[t] \notin Failures /\ pc'[t] = "setban_ban"
             /\ Leaves(t, "setban_ban") => SetbanKey(params[t]) \in DOMAIN setBanned']_vars

\* clearbanned has cleared a table that held an expired entry and one that
\* had not expired (the ban database still shows them).
C22_Witness ==
    \E t \in Threads :
        /\ pc[t] = "clearbanned_dump"
        /\ NoBans
        /\ \E x, y \in DOMAIN banDb :
               banDb[x].nBanUntil <= nTime /\ nTime < banDb[y].nBanUntil

\* ------------------------------------------- properties of setban's loop

\* A setban add that has inserted its ban returns: it leaves the loop,
\* dumps the ban list and ends with success.
SetbanAddReturns ==
    \A t \in Threads : (pc[t] = "setban_ban") ~> (pc[t] = "idle" /\ outcome[t] = "ok")

\* The node that setban's loop is about to close has not been closed yet.
ClosesOpenNode(t) ==
    \A x \in DOMAIN vNodes : vNodes[x].id = bannedNode[t] => ~vNodes[x].fDisconnect

\* C23: a setban add that has inserted its ban leaves its loop, dumps the
\* ban list and returns, when the worker and the socket handler keep
\* running; and the loop calls CloseSocketDisconnect once for each
\* matching peer, never again for a peer it has closed.
C23_SetbanAddTerminates ==
    /\ SetbanAddReturns
    /\ [][\A t \in Threads : Leaves(t, "setban_close") => ClosesOpenNode(t)]_vars

\* ------------------------------------- properties of concurrent switchnetwork

\* C24: switchnetwork reads, negates and writes the flag in one piece: every
\* write of the flag toggles it, so the flag is at its first value after an
\* even number of writes (two concurrent calls leave it where it was), and
\* every call returns what it wrote, the negation of what it read.
C24_AtomicToggle ==
    /\ [](fNetworkActive = (nNetWrites % 2 = 0))
    /\ [](\A n \in DOMAIN netLog :
             /\ netLog[n].wrote = ~netLog[n].read
             /\ netLog[n].ret = netLog[n].wrote)

\* ------------------------------------------------- properties of the locks

\* Thread t takes a step in which a handler reads the live peers.
ReadsNodes(t) ==
    \/ Leaves(t, "count_read")
    \/ Leaves(t, "ping_run")
    \/ Leaves(t, "peers_copy")
    \/ Leaves(t, "info_count")

\* C25: getconnectioncount, ping, getpeerinfo and getnetworkinfo read the
\* live peers only while the reading thread holds cs_vNodes, and the count
\* that getconnectioncount and getnetworkinfo report is the number of live
\* peers at the moment of the read.
C25_ReadsUnderNodesLock ==
    [][\A t \in Threads :
          /\ ReadsNodes(t) => cs_vNodes = t
          /\ Leaves(t, "count_read") => result'[t] = <<Len(vNodes)>>
          /\ Leaves(t, "info_count") => result'[t][1].connections = Len(vNodes)]_vars

\* Thread t holds none of the locks.
HoldsNone(t) == cs_main # t /\ cs_vNodes # t /\ cs_vAddedNodes # t /\ cs_mapLocalHost # t

\* Thread t takes the lock in this step.
Acquires(cs, t) == cs # t /\ cs' = t

\* Every call that has begun comes to its end.
EveryCallEnds == \A t \in Threads : (pc[t] # "idle") ~> (pc[t] = "idle")

=============================================================================
